---- MODULE Spec2Model ----
(***************************************************************************)
(* The simulated venue of ninjabot (PaperWallet): order placement, the     *)
(* candle-driven matching of pending orders, the balance ledger, the       *)
(* average prices and the equity history.                                  *)
(*                                                                         *)
(* float64 values are modelled as exact rationals <<n, d>> with d >= 1 in  *)
(* lowest terms; time.Time is an integer, 0 being the zero time.           *)
(***************************************************************************)
EXTENDS Integers, Sequences, FiniteSets, TLC

(* ------------------------------ bounds --------------------------------- *)
\* highest price a candle or an order request carries
MaxPrice == 2
\* highest size of an order request
MaxSize == 2
\* highest candle timestamp
MaxTime == 2
\* longest order list
MaxOrders == 3
\* longest equity history
MaxEquity == 2
\* most calls made on the wallet in one run
MaxCalls == 4
\* free quote balance the wallet is constructed with (WithPaperAsset)
InitialQuote == 3

(* --------------------------- float64 values ---------------------------- *)
IAbs(i) == IF i < 0 THEN -i ELSE i

RECURSIVE GCD(_, _)
GCD(a, b) == IF b = 0 THEN a ELSE GCD(b, a % b)

Norm(n, d) == LET g == GCD(IAbs(n), d) IN <<n \div g, d \div g>>

R(i) == <<i, 1>>
Zero == R(0)

\* the values of IEEE 754 that are no numbers of the rationals: a pair with
\* second component 0 (the sign of a zero is not kept: a zero is +0)
Inf == <<1, 0>>
NegInf == <<-1, 0>>
NaN == <<0, 0>>
IsNaN(a) == a = NaN
Finite(a) == a[2] # 0
Sgn(i) == IF i > 0 THEN 1 ELSE IF i < 0 THEN -1 ELSE 0

FNeg(a) == <<-a[1], a[2]>>
FAdd(a, b) ==
  IF a[2] = 1 /\ b[2] = 1 THEN <<a[1] + b[1], 1>>
  ELSE IF Finite(a) /\ Finite(b)
    THEN Norm(a[1] * b[2] + b[1] * a[2], a[2] * b[2])
  ELSE IF Finite(b) THEN a
      ELSE IF Finite(a) THEN b
      ELSE IF a = b THEN a ELSE NaN
FSub(a, b) == FAdd(a, FNeg(b))
FMul(a, b) ==
  LET g1 == GCD(IAbs(a[1]), b[2])
      g2 == GCD(IAbs(b[1]), a[2])
  IN  IF a[2] = 1 /\ b[2] = 1 THEN <<a[1] * b[1], 1>>
      ELSE IF ~(Finite(a) /\ Finite(b)) THEN <<Sgn(a[1]) * Sgn(b[1]), 0>>
      ELSE IF a[1] = 0 \/ b[1] = 0 THEN Zero
      ELSE <<(a[1] \div g1) * (b[1] \div g2), (a[2] \div g2) * (b[2] \div g1)>>
FInv(a) ==
  IF ~Finite(a) THEN (IF IsNaN(a) THEN NaN ELSE Zero)
  ELSE IF a[1] = 0 THEN Inf
  ELSE IF a[1] > 0 THEN <<a[2], a[1]>> ELSE <<-a[2], -a[1]>>
FDiv(a, b) == FMul(a, FInv(b))
FLt(a, b) ==
  IF Finite(a) /\ Finite(b) THEN a[1] * b[2] < b[1] * a[2]
  ELSE ~IsNaN(a) /\ ~IsNaN(b) /\ a # b /\ (a = NegInf \/ b = Inf)
FLe(a, b) ==
  IF Finite(a) /\ Finite(b) THEN a[1] * b[2] <= b[1] * a[2]
  ELSE ~IsNaN(a) /\ ~IsNaN(b) /\ (a = b \/ FLt(a, b))
FGt(a, b) == FLt(b, a)
FGe(a, b) == FLe(b, a)
MathMin(a, b) == IF IsNaN(a) \/ IsNaN(b) THEN NaN ELSE IF FLe(a, b) THEN a ELSE b
MathMax(a, b) == IF IsNaN(a) \/ IsNaN(b) THEN NaN ELSE IF FGe(a, b) THEN a ELSE b
MathAbs(a) == <<IAbs(a[1]), a[2]>>
MathFloor(a) == IF Finite(a) THEN R(a[1] \div a[2]) ELSE a
MathTrunc(a) == IF a[1] >= 0 THEN MathFloor(a) ELSE FNeg(MathFloor(FNeg(a)))
MathPow10(n) == R(10 ^ n)

(* ------------------------------ names ---------------------------------- *)
\* a nil error
Nil == "nil"
\* a nil pointer; Ptr(x)[1] is *p
NilPtr == <<>>
Ptr(x) == <<x>>
SideTypeBuy == "BUY"
SideTypeSell == "SELL"
OrderTypeLimit == "LIMIT"
OrderTypeMarket == "MARKET"
OrderTypeLimitMaker == "LIMIT_MAKER"
OrderTypeStopLoss == "STOP_LOSS"
OrderTypeStopLossLimit == "STOP_LOSS_LIMIT"
OrderTypeTakeProfit == "TAKE_PROFIT"
OrderTypeTakeProfitLimit == "TAKE_PROFIT_LIMIT"
OrderStatusTypeNew == "NEW"
OrderStatusTypeFilled == "FILLED"
OrderStatusTypeCanceled == "CANCELED"
ErrInsufficientFunds == "insufficient funds or locked"
ErrInvalidQuantity == "invalid quantity"

baseCoin == "U"
AssetNames == {"A", "B"}
\* strings.ToUpper(asset + p.baseCoin)
PairOf(asset) == asset \o baseCoin
Pairs == {PairOf(a) : a \in AssetNames}
Sides == {SideTypeBuy, SideTypeSell}
Prices == 1..MaxPrice
Sizes == 0..MaxSize
Times == 1..MaxTime

\* the pair's asset and quote tickers
SplitAssetQuote(pair) ==
  LET a == CHOOSE x \in AssetNames : PairOf(x) = pair IN <<a, baseCoin>>

zeroCandle == [Pair |-> "", Time |-> 0, Close |-> Zero, High |-> Zero,
               Low |-> Zero, Complete |-> FALSE]
\* the stored candle, as far as it is read back
seen(candle) == [Time |-> candle.Time, Close |-> candle.Close]
assetInfo(free, lock) == [Free |-> free, Lock |-> lock]

(* ------------------------------ state ---------------------------------- *)
VARIABLES
  assets,         \* map asset -> assetInfo (its domain: the keys present)
  avgShortPrice,  \* map pair -> float64
  avgLongPrice,   \* map pair -> float64
  volume,         \* map pair -> float64
  lastCandle,     \* map pair -> the Time and Close of the candle stored (the
                  \* fields the wallet reads back); zero: key absent
  orders,         \* []model.Order
  counter,        \* last id handed out by ID()
  assetValues,    \* map asset -> []AssetValue
  equityValues,   \* []AssetValue
  ret,            \* the last call on the wallet and what it returned
  calls,          \* number of calls made on the wallet
  drawdown,       \* what the last call of MaxDrawdown returned
  job,            \* the call that holds the wallet's mutex, and where it is
  reads,          \* the last read of the wallet by Account, Order or Position
  asked,          \* the order placement last asked of the wallet
  trip,           \* the round trip under way: its orders and the totals before it
  \* the order controller
  ctlStatus,      \* Controller.status
  locked,         \* Controller.mtx is held
  pc,             \* where each goroutine of the controller is
  stored,         \* the orders in the storage, by ID
  venue,          \* the status of each order at the exchange, by ExchangeID
  spawned,        \* events of the goroutines "go c.orderFeed.Publish(..)"
                  \* that have not published yet
  feed,           \* the events published to the order feed
  trades,         \* the orders processTrade registered the volume of
  writes,         \* the orders the last operation of the controller wrote
                  \* to the storage
  pass,           \* what the reconciliation pass ran into, when it was the
                  \* last operation of the controller
  request,        \* what the order operation returned, when it was the last
                  \* operation of the controller
  crashed,        \* the runtime has thrown a fatal error
  snapshot,       \* the pending orders a goroutine in updateOrders has read
                  \* from the storage and is going through
  \* the controller's storage over the wallet
  attribution,    \* the rows stored, the order the wallet filled its orders in,
                  \* and the orders calculateProfit replayed in the last operation
  \* tools
  scheduler,      \* Scheduler.orderConditions, the orders its broker created, and
                  \* what the conditions and the broker returned in the last Update
  trailing,       \* the TrailingStop, the last call made on it and what it returned
  strategy,       \* the strategy Controller, its dataframe, and what its last call
                  \* invoked on the strategy
  subscription    \* the goroutine of CandlesSubscription, its two channels, the
                  \* websocket connection and the handler it is running

\* the tools next to the Scheduler and the profit attribution
otherTools == <<trailing, strategy, subscription>>

\* the state outside the wallet and the goroutines of the controller
toolVars == <<attribution, scheduler, trailing, strategy, subscription>>

vars == <<assets, avgShortPrice, avgLongPrice, volume, lastCandle,
          orders, counter, assetValues, equityValues, ret, calls, drawdown,
          job, reads, asked, trip, toolVars,
          ctlStatus, locked, pc, stored, venue, spawned, feed, trades, writes,
          pass, request, crashed, snapshot>>

walletVars == <<assets, avgShortPrice, avgLongPrice, volume, lastCandle,
                orders, counter, assetValues, equityValues, ret, calls, drawdown,
                job, reads, asked, trip, toolVars>>
controllerVars == <<ctlStatus, locked, pc, stored, venue, spawned, feed, trades,
                    writes, pass, request, crashed, snapshot>>

\* the goroutines of the controller: the reconciliation loops Start spawns,
\* the callers of Stop, and a caller of the order operations
MaxStarts == 1
MaxStoppers == 2
Loops == {<<"loop", g>> : g \in 1..MaxStarts}
Stoppers == {<<"stop", s>> : s \in 1..MaxStoppers}
Caller == <<"call", 1>>
Threads == Loops \cup Stoppers \cup {Caller}

StatusNone == ""
StatusRunning == "running"
StatusStopped == "stopped"
OrderStatusTypePartiallyFilled == "PARTIALLY_FILLED"
OrderStatusTypePendingCancel == "PENDING_CANCEL"

noPass == [ok |-> TRUE, failed |-> {}]
noRequest == [op |-> "", err |-> Nil, made |-> {}]

NewController ==
  /\ ctlStatus = StatusNone
  /\ locked = FALSE
  /\ pc = [t \in Threads |-> IF t \in Loops THEN "none" ELSE "idle"]
  /\ stored = <<>>
  /\ venue = <<>>
  /\ spawned = {}
  /\ feed = <<>>
  /\ trades = <<>>
  /\ writes = <<>>
  /\ pass = noPass
  /\ request = noRequest
  /\ crashed = FALSE
  /\ snapshot = [t \in Threads |-> <<>>]

\* no call holds the wallet's mutex; nothing read yet
noJob == [op |-> "", candle |-> zeroCandle, i |-> 0]
noRead == [by |-> "", during |-> "", i |-> 0, of |-> 0]
noAsked == [op |-> "", size |-> <<0, 1>>]

\* nothing stored, nothing filled, no profit calculated
noAttribution == [stored |-> <<>>, filled |-> <<>>, replays |-> <<>>]

\* the tools as they are constructed
\* NewScheduler(pair): no condition; no Update made, no order created
NewScheduler == [orderConditions |-> <<>>, registered |-> 0, updates |-> 0,
                 truth |-> <<>>, fails |-> <<>>, made |-> <<>>]

\* CandlesSubscription has made ccandle and cerr and started its goroutine,
\* which is about to call WsKlineServe
NewSubscription ==
  [pc |-> "serve", cancelled |-> FALSE, conn |-> "none", handler |-> "idle",
   closes |-> [ccandle |-> 0, cerr |-> 0],
   received |-> [ccandle |-> 0, cerr |-> 0],
   sentClosed |-> {}, serves |-> 0]

\* no strategy Controller has been made yet
noStrategy ==
  [made |-> FALSE, warmup |-> 0, hf |-> FALSE, started |-> FALSE,
   Time |-> <<>>, Close |-> <<>>, op |-> "", candle |-> <<>>,
   indicators |-> FALSE, callback |-> "", calls |-> 0]

\* NewTrailingStop(): &TrailingStop{}
NewTrailingStop ==
  [t |-> [current |-> <<0, 1>>, stop |-> <<0, 1>>, active |-> FALSE],
   op |-> "", arg |-> <<0, 1>>, result |-> FALSE, calls |-> 0]

NewTools ==
  /\ attribution = noAttribution
  /\ scheduler = NewScheduler
  /\ trailing = NewTrailingStop
  /\ strategy = noStrategy
  /\ subscription = NewSubscription

\* no round trip under way
noTrip == [phase |-> "none", side |-> "", size |-> <<0, 1>>, price |-> <<0, 1>>,
           asset |-> <<0, 1>>, quote |-> <<0, 1>>, first |-> 0, second |-> 0]

\* nothing returned yet; time.Time{} is 0
noDrawdown == [called |-> FALSE, Value |-> Zero, Start |-> 0, End |-> 0]

\* what the last call returned, and the candle it was given when it was OnCandle
Returned(err) == [err |-> err, candle |-> zeroCandle]

\* the assets map read with Go's zero value for a missing key after creation
Ensure(as, k) == IF k \in DOMAIN as THEN as ELSE as @@ (k :> assetInfo(Zero, Zero))

Init ==
  /\ assets = (baseCoin :> assetInfo(R(InitialQuote), Zero))
  /\ avgShortPrice = [p \in Pairs |-> Zero]
  /\ avgLongPrice = [p \in Pairs |-> Zero]
  /\ volume = [p \in Pairs |-> Zero]
  /\ lastCandle = [p \in Pairs |-> seen(zeroCandle)]
  /\ orders = <<>>
  /\ counter = 0
  /\ assetValues = [a \in AssetNames \cup {baseCoin} |-> <<>>]
  /\ equityValues = <<>>
  /\ ret = Returned(Nil)
  /\ calls = 0
  /\ drawdown = noDrawdown
  /\ job = noJob
  /\ reads = noRead
  /\ asked = noAsked
  /\ trip = noTrip
  /\ NewTools
  /\ NewController

(* ----------------------- updateAveragePrice ---------------------------- *)
\* the two average-price maps after a fill of amount at value on pair, given
\* the assets map at the time of the call
updateAveragePrice(as, avgL, avgS, side, pair, amount, value) ==
  LET asset == SplitAssetQuote(pair)[1]
      actualQty == IF asset \in DOMAIN as THEN as[asset].Free ELSE Zero
      keep == [avgLong |-> avgL, avgShort |-> avgS]
  IN
  IF actualQty = Zero THEN
       IF side = SideTypeBuy
         THEN [avgLong |-> [avgL EXCEPT ![pair] = value], avgShort |-> avgS]
         ELSE [avgLong |-> avgL, avgShort |-> [avgS EXCEPT ![pair] = value]]
  ELSE IF FGt(actualQty, Zero) /\ side = SideTypeBuy THEN
       LET positionValue == FMul(avgL[pair], actualQty)
       IN  [avgLong |-> [avgL EXCEPT ![pair] =
                           FDiv(FAdd(positionValue, FMul(amount, value)),
                                FAdd(actualQty, amount))],
            avgShort |-> avgS]
  ELSE IF FGt(actualQty, Zero) /\ side = SideTypeSell THEN
       IF FLe(amount, actualQty) THEN keep
       ELSE [avgLong |-> avgL, avgShort |-> [avgS EXCEPT ![pair] = value]]
  ELSE IF FLt(actualQty, Zero) /\ side = SideTypeSell THEN
       LET positionValue == FMul(avgS[pair], FNeg(actualQty))
       IN  [avgLong |-> avgL,
            avgShort |-> [avgS EXCEPT ![pair] =
                           FDiv(FAdd(positionValue, FMul(amount, value)),
                                FAdd(FNeg(actualQty), amount))]]
  ELSE \* actual short + order buy
       IF FLe(amount, FNeg(actualQty)) THEN keep
       ELSE [avgLong |-> [avgL EXCEPT ![pair] = value], avgShort |-> avgS]

(* --------------------------- validateFunds ----------------------------- *)
\* funds of a sell: the free quote plus a positive free asset at value
sellFunds(aFree, qFree, value) ==
  IF FGt(aFree, Zero) THEN FAdd(qFree, FMul(aFree, value)) ELSE qFree

\* liquid price of the short position, 0 without one
liquidShortValue(aFree, avgShort, value) ==
  IF FLt(aFree, Zero)
    THEN FSub(FMul(FMul(R(2), MathAbs(aFree)), avgShort), FMul(MathAbs(aFree), value))
    ELSE Zero

\* a buy against a short position buys only what exceeds it
amountToBuy(aFree, amount) ==
  IF FLt(aFree, Zero) THEN FAdd(amount, aFree) ELSE amount

\* asset a sell locks: a negative free amount is ignored
lockedAssetSell(aFree, amount) == MathMin(MathMax(aFree, Zero), amount)

\* variant: a buy locks at least its whole amount of asset
lockedAssetBuy_Max(aFree, amount) == MathMax(FNeg(MathMin(aFree, Zero)), amount)

\* asset a buy locks: a positive free amount is ignored
lockedAssetBuy(aFree, amount) == MathMin(FNeg(MathMin(aFree, Zero)), amount)

\* the ledger after validateFunds(side, pair, amount, value, fill): err is Nil
\* or ErrInsufficientFunds; the asset and the quote key exist afterwards in
\* either case
validateFunds(as0, avgL, avgS, side, pair, amount, value, fill) ==
  LET asset == SplitAssetQuote(pair)[1]
      quote == SplitAssetQuote(pair)[2]
      as1 == Ensure(Ensure(as0, asset), quote)
      aFree == as1[asset].Free
      qFree == as1[quote].Free
      fail == [err |-> ErrInsufficientFunds, assets |-> as1,
               avgLong |-> avgL, avgShort |-> avgS]
  IN
  IF side = SideTypeSell THEN
    LET funds == sellFunds(aFree, qFree, value)
        lockedAsset == lockedAssetSell(aFree, amount)
        lockedQuote == FMul(FSub(amount, lockedAsset), value)
        as2 == [as1 EXCEPT ![asset].Free = FSub(@, lockedAsset),
                           ![quote].Free = FSub(@, lockedQuote)]
        avg == updateAveragePrice(as2, avgL, avgS, side, pair, amount, value)
    IN
    IF FLt(funds, FMul(amount, value)) THEN fail
    ELSE IF fill THEN
      [err |-> Nil,
       assets |-> IF FGt(lockedQuote, Zero)
                    THEN [as2 EXCEPT ![asset].Free = FSub(@, amount)]
                    ELSE [as2 EXCEPT ![quote].Free = FAdd(@, FMul(amount, value))],
       avgLong |-> avg.avgLong, avgShort |-> avg.avgShort]
    ELSE
      [err |-> Nil,
       assets |-> [as2 EXCEPT ![asset].Lock = FAdd(@, lockedAsset),
                              ![quote].Lock = FAdd(@, lockedQuote)],
       avgLong |-> avgL, avgShort |-> avgS]
  ELSE \* SideTypeBuy
    LET liquid == liquidShortValue(aFree, avgS[pair], value)
        funds == FAdd(qFree, liquid)
        lockedAsset == lockedAssetBuy(aFree, amount)
        lockedQuote == FSub(FMul(FSub(amount, lockedAsset), value), liquid)
        as2 == [as1 EXCEPT ![asset].Free = FAdd(@, lockedAsset),
                           ![quote].Free = FSub(@, lockedQuote)]
        avg == updateAveragePrice(as2, avgL, avgS, side, pair, amount, value)
    IN
    IF FLt(funds, FMul(amountToBuy(aFree, amount), value)) THEN fail
    ELSE IF fill THEN
      [err |-> Nil,
       assets |-> [as2 EXCEPT ![asset].Free = FAdd(@, FSub(amount, lockedAsset))],
       avgLong |-> avg.avgLong, avgShort |-> avg.avgShort]
    ELSE
      [err |-> Nil,
       assets |-> [as2 EXCEPT ![asset].Lock = FAdd(@, lockedAsset),
                              ![quote].Lock = FAdd(@, lockedQuote)],
       avgLong |-> avgL, avgShort |-> avgS]

(* ------------------------------ orders --------------------------------- *)
Order(id, pair, side, type, status, price, stop, quantity, group, refPrice) ==
  [ExchangeID |-> id, CreatedAt |-> lastCandle[pair].Time,
   UpdatedAt |-> lastCandle[pair].Time, Pair |-> pair, Side |-> side,
   Type |-> type, Status |-> status, Price |-> price, Stop |-> stop,
   Quantity |-> quantity, GroupID |-> group,
   RefPrice |-> refPrice]

\* what an order-placement call leaves when it returns err before appending
Rejected(err, as) ==
  /\ assets' = as
  /\ ret' = Returned(err)
  /\ UNCHANGED <<avgShortPrice, avgLongPrice, volume, lastCandle,
                 orders, counter, assetValues, equityValues>>

\* variant: createOrderMarket without the check of the size
createOrderMarket_NoZeroCheck(side, pair, size) ==
  LET close == lastCandle[pair].Close
      vf == validateFunds(assets, avgLongPrice, avgShortPrice, side, pair,
                          size, close, TRUE)
      order == Order(counter + 1, pair, side, OrderTypeMarket,
                     OrderStatusTypeFilled, close, NilPtr, size, NilPtr, Zero)
  IN
  IF vf.err # Nil THEN Rejected(vf.err, vf.assets)
  ELSE
    /\ assets' = vf.assets
    /\ avgLongPrice' = vf.avgLong
    /\ avgShortPrice' = vf.avgShort
    /\ volume' = [volume EXCEPT ![pair] = FAdd(@, FMul(close, size))]
    /\ counter' = counter + 1
    /\ orders' = Append(orders, order)
    /\ ret' = Returned(Nil)
    /\ UNCHANGED <<lastCandle, assetValues, equityValues>>

\* createOrderMarket, called with the lock held by CreateOrderMarket and by
\* CreateOrderMarketQuote
createOrderMarket(side, pair, size) ==
  LET close == lastCandle[pair].Close
      vf == validateFunds(assets, avgLongPrice, avgShortPrice, side, pair,
                          size, close, TRUE)
      order == Order(counter + 1, pair, side, OrderTypeMarket,
                     OrderStatusTypeFilled, close, NilPtr, size, NilPtr, Zero)
  IN
  IF size = Zero THEN Rejected(ErrInvalidQuantity, assets)
  ELSE IF vf.err # Nil THEN Rejected(vf.err, vf.assets)
  ELSE
    /\ assets' = vf.assets
    /\ avgLongPrice' = vf.avgLong
    /\ avgShortPrice' = vf.avgShort
    /\ volume' = [volume EXCEPT ![pair] = FAdd(@, FMul(close, size))]
    /\ counter' = counter + 1
    /\ orders' = Append(orders, order)
    /\ ret' = Returned(Nil)
    /\ UNCHANGED <<lastCandle, assetValues, equityValues>>

CreateOrderMarket(side, pair, size) ==
  /\ Len(orders) < MaxOrders
  /\ createOrderMarket(side, pair, size)

\* AssetsInfo: the lot step and the precision of the asset quantity
BaseAssetPrecision == 8
StepSize == FDiv(R(1), MathPow10(BaseAssetPrecision))

\* common.AmountToLotSize of go-binance
AmountToLotSize(lot, precision, amount) ==
  FDiv(MathTrunc(FMul(FMul(MathFloor(FDiv(amount, lot)), lot), MathPow10(precision))),
       MathPow10(precision))

\* the call is taken for pairs that have a last candle (quoteQuantity / 0 is
\* an infinity or NaN)
CreateOrderMarketQuote(side, pair, quoteQuantity) ==
  /\ Len(orders) < MaxOrders
  /\ lastCandle[pair].Close # Zero
  /\ createOrderMarket(side, pair,
                       AmountToLotSize(StepSize, BaseAssetPrecision,
                                       FDiv(quoteQuantity, lastCandle[pair].Close)))

\* variant: the order is appended whatever validateFunds returns
Pending_IgnoreErr(side, pair, size, value, made) ==
  LET vf == validateFunds(assets, avgLongPrice, avgShortPrice, side, pair,
                          size, value, FALSE)
  IN
  IF size = Zero THEN Rejected(ErrInvalidQuantity, assets)
  ELSE
    /\ assets' = vf.assets
    /\ orders' = orders \o made
    /\ ret' = Returned(vf.err)
    /\ UNCHANGED <<avgShortPrice, avgLongPrice, volume, lastCandle,
                   assetValues, equityValues>>

\* a pending order placed after validateFunds(.., fill = false)
Pending(side, pair, size, value, made) ==
  LET vf == validateFunds(assets, avgLongPrice, avgShortPrice, side, pair,
                          size, value, FALSE)
  IN
  IF size = Zero THEN Rejected(ErrInvalidQuantity, assets)
  ELSE IF vf.err # Nil THEN Rejected(vf.err, vf.assets)
  ELSE
    /\ assets' = vf.assets
    /\ orders' = orders \o made
    /\ ret' = Returned(Nil)
    /\ UNCHANGED <<avgShortPrice, avgLongPrice, volume, lastCandle,
                   assetValues, equityValues>>

CreateOrderLimit(side, pair, size, limit) ==
  /\ Len(orders) < MaxOrders
  /\ Pending(side, pair, size, limit,
             <<Order(counter + 1, pair, side, OrderTypeLimit, OrderStatusTypeNew,
                     limit, NilPtr, size, NilPtr, Zero)>>)
  /\ counter' = IF ret'.err = Nil THEN counter + 1 ELSE counter

CreateOrderStop(pair, size, limit) ==
  /\ Len(orders) < MaxOrders
  /\ Pending(SideTypeSell, pair, size, limit,
             <<Order(counter + 1, pair, SideTypeSell, OrderTypeStopLossLimit,
                     OrderStatusTypeNew, limit, Ptr(limit), size, NilPtr, Zero)>>)
  /\ counter' = IF ret'.err = Nil THEN counter + 1 ELSE counter

\* groupID := p.ID(), then one ID() for each leg
CreateOrderOCO(side, pair, size, price, stop, stopLimit) ==
  /\ Len(orders) + 2 <= MaxOrders
  /\ Pending(side, pair, size, price,
             <<Order(counter + 2, pair, side, OrderTypeLimitMaker,
                     OrderStatusTypeNew, price, NilPtr, size, Ptr(counter + 1),
                     lastCandle[pair].Close),
               Order(counter + 3, pair, side, OrderTypeStopLoss,
                     OrderStatusTypeNew, stopLimit, Ptr(stop), size,
                     Ptr(counter + 1), lastCandle[pair].Close)>>)
  /\ counter' = IF ret'.err = Nil THEN counter + 3 ELSE counter

(* ------------------------------ Cancel --------------------------------- *)
Cancel(id) ==
  /\ orders' = [i \in 1..Len(orders) |->
                  IF orders[i].ExchangeID = id
                    THEN [orders[i] EXCEPT !.Status = OrderStatusTypeCanceled]
                    ELSE orders[i]]
  /\ ret' = Returned(Nil)
  /\ UNCHANGED <<assets, avgShortPrice, avgLongPrice, volume, lastCandle,
                 counter, assetValues, equityValues>>

(* ------------------------------ OnCandle ------------------------------- *)
\* variant: a sell order is executed at the candle's high or low
sellPrice_HighLow(order, candle) ==
  IF order.Type \in {OrderTypeLimit, OrderTypeLimitMaker, OrderTypeTakeProfit,
                     OrderTypeTakeProfitLimit}
     /\ FGe(candle.High, order.Price)
    THEN candle.High
  ELSE IF order.Type \in {OrderTypeStopLossLimit, OrderTypeStopLoss}
          /\ FLe(candle.Low, order.Stop[1])
    THEN candle.Low
  ELSE NilPtr

\* the price a pending sell order is executed at on the candle; NilPtr: the
\* loop continues with the next order
sellPrice(order, candle) ==
  IF order.Type \in {OrderTypeLimit, OrderTypeLimitMaker, OrderTypeTakeProfit,
                     OrderTypeTakeProfitLimit}
     /\ FGe(candle.High, order.Price)
    THEN order.Price
  ELSE IF order.Type \in {OrderTypeStopLossLimit, OrderTypeStopLoss}
          /\ FLe(candle.Low, order.Stop[1])
    THEN order.Stop[1]
  ELSE NilPtr

\* variant: the canceled order of the group loses its quantity
cancelGroup_Reset(os, order, candle) ==
  LET others == {j \in 1..Len(os) : /\ os[j].GroupID # NilPtr
                                    /\ os[j].GroupID = order.GroupID
                                    /\ os[j].ExchangeID # order.ExchangeID}
      first == CHOOSE j \in others : \A k \in others : j <= k
  IN  IF order.GroupID = NilPtr \/ others = {} THEN os
      ELSE [os EXCEPT ![first].Status = OrderStatusTypeCanceled,
                      ![first].UpdatedAt = candle.Time,
                      ![first].Quantity = Zero]

\* "Cancel other orders from same group": the first other order of the group
cancelGroup(os, order, candle) ==
  LET others == {j \in 1..Len(os) : /\ os[j].GroupID # NilPtr
                                    /\ os[j].GroupID = order.GroupID
                                    /\ os[j].ExchangeID # order.ExchangeID}
      first == CHOOSE j \in others : \A k \in others : j <= k
  IN  IF order.GroupID = NilPtr \/ others = {} THEN os
      ELSE [os EXCEPT ![first].Status = OrderStatusTypeCanceled,
                      ![first].UpdatedAt = candle.Time]

\* variant: a pending buy order is executed when the candle's low reaches it
buyFills_Low(order, candle) == FGe(order.Price, candle.Low)

\* a pending buy order is executed on the candle
buyFills(order, candle) == FGe(order.Price, candle.Close)

\* one iteration of the loop over p.orders; w holds the fields the loop writes
matchOrder(w, i, candle) ==
  LET order == w.orders[i]
      asset == SplitAssetQuote(order.Pair)[1]
      quote == SplitAssetQuote(order.Pair)[2]
      filled == [w.orders EXCEPT ![i].UpdatedAt = candle.Time,
                                 ![i].Status = OrderStatusTypeFilled]
  IN
  IF order.Pair # candle.Pair \/ order.Status # OrderStatusTypeNew THEN w
  ELSE IF order.Side = SideTypeBuy THEN
    IF buyFills(order, candle) THEN
      LET as1 == Ensure(w.assets, asset)
          avg == updateAveragePrice(as1, w.avgLong, w.avgShort, order.Side,
                                    order.Pair, order.Quantity, order.Price)
      IN  [orders |-> filled,
           assets |-> [as1 EXCEPT ![asset].Free = FAdd(@, order.Quantity),
                                  ![quote].Lock =
                                     FSub(@, FMul(order.Price, order.Quantity))],
           avgLong |-> avg.avgLong, avgShort |-> avg.avgShort,
           volume |-> [w.volume EXCEPT ![candle.Pair] =
                         FAdd(@, FMul(order.Price, order.Quantity))]]
    ELSE w
  ELSE
    LET orderPrice == sellPrice(order, candle)
        as1 == Ensure(w.assets, quote)
        avg == updateAveragePrice(as1, w.avgLong, w.avgShort, order.Side,
                                  order.Pair, order.Quantity, orderPrice)
        canceled == cancelGroup(w.orders, order, candle)
    IN
    IF orderPrice = NilPtr THEN w
    ELSE [orders |-> [canceled EXCEPT ![i].UpdatedAt = candle.Time,
                                      ![i].Status = OrderStatusTypeFilled],
          assets |-> [as1 EXCEPT ![asset].Lock = FSub(@, order.Quantity),
                                 ![quote].Free =
                                    FAdd(@, FMul(order.Quantity, orderPrice))],
          avgLong |-> avg.avgLong, avgShort |-> avg.avgShort,
          volume |-> [w.volume EXCEPT ![candle.Pair] =
                        FAdd(@, FMul(order.Quantity, orderPrice))]]

RECURSIVE matchOrders(_, _, _)
matchOrders(w, i, candle) ==
  IF i > Len(w.orders) THEN w
  ELSE matchOrders(matchOrder(w, i, candle), i + 1, candle)

\* a map read with Go's zero value for a missing key
lastCandleOf(lc, pair) == IF pair \in DOMAIN lc THEN lc[pair] ELSE seen(zeroCandle)
avgShortPriceOf(avgS, pair) == IF pair \in DOMAIN avgS THEN avgS[pair] ELSE Zero

\* variant: a short position is valued like a long one
assetTotal_Long(as, avgS, lc, asset) ==
  FMul(FAdd(as[asset].Free, as[asset].Lock), lastCandleOf(lc, PairOf(asset)).Close)

\* what one asset adds to total in the loop of a complete candle
assetTotal(as, avgS, lc, asset) ==
  LET amount == FAdd(as[asset].Free, as[asset].Lock)
      pair == PairOf(asset)
      v == MathAbs(amount)
  IN  IF FLt(amount, Zero)
        THEN FSub(FMul(FMul(R(2), v), avgShortPriceOf(avgS, pair)),
                  FMul(v, lastCandleOf(lc, pair).Close))
        ELSE FMul(amount, lastCandleOf(lc, pair).Close)

RECURSIVE sumTotal(_, _, _, _)
sumTotal(as, avgS, lc, keys) ==
  IF keys = {} THEN Zero
  ELSE LET k == CHOOSE x \in keys : TRUE
       IN  FAdd(assetTotal(as, avgS, lc, k), sumTotal(as, avgS, lc, keys \ {k}))

AssetValue(time, value) == [Time |-> time, Value |-> value]

\* the equity sample a complete candle appends
equityValue(as, avgS, lc, candle) ==
  AssetValue(candle.Time,
             FAdd(FAdd(sumTotal(as, avgS, lc, DOMAIN as), as[baseCoin].Lock),
                  as[baseCoin].Free))

OnCandle(candle) ==
  LET lc == [lastCandle EXCEPT ![candle.Pair] = seen(candle)]
      w == matchOrders([orders |-> orders, assets |-> assets,
                        avgLong |-> avgLongPrice, avgShort |-> avgShortPrice,
                        volume |-> volume], 1, candle)
  IN
  /\ candle.Complete => Len(equityValues) < MaxEquity
  /\ lastCandle' = lc
  /\ orders' = w.orders
  /\ assets' = w.assets
  /\ avgLongPrice' = w.avgLong
  /\ avgShortPrice' = w.avgShort
  /\ volume' = w.volume
  /\ IF candle.Complete
       THEN /\ assetValues' =
                 [a \in DOMAIN assetValues |->
                    IF a \in DOMAIN w.assets
                      THEN Append(assetValues[a],
                                  AssetValue(candle.Time,
                                             FMul(FAdd(w.assets[a].Free, w.assets[a].Lock),
                                                  lastCandleOf(lc, PairOf(a)).Close)))
                      ELSE assetValues[a]]
            /\ equityValues' =
                 Append(equityValues, equityValue(w.assets, w.avgShort, lc, candle))
       ELSE UNCHANGED <<assetValues, equityValues>>
  /\ ret' = [err |-> Nil, candle |-> candle]
  /\ UNCHANGED counter

(* --------------------------- specification ----------------------------- *)
\* candles of the pairs ps: low <= close <= high
Candles(ps) ==
  {c \in [Pair : ps, Time : Times, Close : {R(x) : x \in Prices},
          High : {R(x) : x \in Prices}, Low : {R(x) : x \in Prices},
          Complete : BOOLEAN] :
     FLe(c.Low, c.Close) /\ FLe(c.Close, c.High)}

\* one more call on the wallet, made under p.Lock()
Tick ==
  /\ calls < MaxCalls
  /\ calls' = calls + 1
  /\ UNCHANGED <<drawdown, job, reads, asked, trip, toolVars>>
  /\ UNCHANGED controllerVars

\* the wallet trading one pair
Traded == {PairOf("A")}

Next ==
  \/ /\ calls < MaxCalls
     /\ \E c \in Candles(Traded) : Tick /\ OnCandle(c)
  \/ /\ calls < MaxCalls
     /\ \E side \in Sides, pair \in Traded, size \in Sizes :
          Tick /\ CreateOrderMarket(side, pair, R(size))
  \/ /\ calls < MaxCalls
     /\ \E side \in Sides, pair \in Traded, size \in Sizes :
          Tick /\ CreateOrderMarketQuote(side, pair, R(size))
  \/ /\ calls < MaxCalls
     /\ \E side \in Sides, pair \in Traded, size \in Sizes, limit \in Prices :
          Tick /\ CreateOrderLimit(side, pair, R(size), R(limit))
  \/ /\ calls < MaxCalls
     /\ \E pair \in Traded, size \in Sizes, limit \in Prices :
          Tick /\ CreateOrderStop(pair, R(size), R(limit))
  \/ /\ calls < MaxCalls
     /\ \E side \in Sides, pair \in Traded, size \in Sizes, price \in Prices,
           stop \in Prices :
          Tick /\ stop < price
               /\ CreateOrderOCO(side, pair, R(size), R(price), R(stop), R(stop))
  \/ /\ calls < MaxCalls
     /\ \E id \in 1..counter : Tick /\ Cancel(id)

Spec == Init /\ [][Next]_vars

(* ------------------------------ Account -------------------------------- *)
\* Account().Balance: the balance of an asset, zero when the wallet has no
\* entry for it
Balance(as, a) == IF a \in DOMAIN as THEN as[a] ELSE assetInfo(Zero, Zero)

(* ------------------------------ claims --------------------------------- *)
AllAssets == AssetNames \cup {baseCoin}
isPtr(p) == p # NilPtr
\* the call of this step was OnCandle
candleStep == ret'.candle # zeroCandle
\* the order this step appended, when it appended exactly one
appended == orders'[Len(orders')]
appendsOne == Len(orders') = Len(orders) + 1

\* C1: a market order that is placed is appended Filled at the last close c
\* of its pair; with a free asset amount >= 0 (no short position) a buy of q
\* takes q*c from the free quote and adds q to the free asset; a sell of
\* q <= free asset adds q*c to the free quote and takes q from the free
\* asset; the locked amounts stay as they are.
C1_MarketOrder ==
  [][(appendsOne /\ appended.Type = OrderTypeMarket) =>
       LET o == appended
           q == o.Quantity
           c == lastCandle[o.Pair].Close
           a == SplitAssetQuote(o.Pair)[1]
           aFree == Balance(assets, a).Free
           qFree == Balance(assets, baseCoin).Free
       IN
       /\ ret'.err = Nil
       /\ o.Status = OrderStatusTypeFilled
       /\ o.Price = c
       /\ o.ExchangeID = counter' /\ counter' = counter + 1
       /\ (o.Side = SideTypeBuy /\ FGe(aFree, Zero))
          => /\ FGe(qFree, FMul(q, c))
             /\ Balance(assets', baseCoin).Free = FSub(qFree, FMul(q, c))
             /\ Balance(assets', a).Free = FAdd(aFree, q)
       /\ (o.Side = SideTypeSell /\ FLe(q, aFree))
          => /\ Balance(assets', baseCoin).Free = FAdd(qFree, FMul(q, c))
             /\ Balance(assets', a).Free = FSub(aFree, q)
       /\ Balance(assets', a).Lock = Balance(assets, a).Lock
       /\ Balance(assets', baseCoin).Lock = Balance(assets, baseCoin).Lock
    ]_vars

\* C1 witness: a market buy at one close and a market sell of the same
\* quantity at another close have both been filled, and the free quote is
\* the initial one minus q*c plus q*c'.
C1_Witness ==
  /\ Len(orders) = 2
  /\ orders[1].Type = OrderTypeMarket /\ orders[1].Side = SideTypeBuy
  /\ orders[2].Type = OrderTypeMarket /\ orders[2].Side = SideTypeSell
  /\ orders[1].Quantity = orders[2].Quantity
  /\ orders[1].Price # Zero /\ orders[2].Price # orders[1].Price
  /\ orders[1].Status = OrderStatusTypeFilled
  /\ orders[2].Status = OrderStatusTypeFilled
  /\ Balance(assets, "A").Free = Zero
  /\ Balance(assets, baseCoin).Free =
       FAdd(FSub(R(InitialQuote), FMul(orders[1].Quantity, orders[1].Price)),
            FMul(orders[2].Quantity, orders[2].Price))

\* C2: a call that returns ErrInsufficientFunds leaves every balance, both
\* average prices, the traded volume, the id counter and the order list as
\* they were.
C2_InsufficientFundsNoChange ==
  [][ret'.err = ErrInsufficientFunds
       => /\ \A a \in AllAssets : Balance(assets', a) = Balance(assets, a)
          /\ UNCHANGED <<avgLongPrice, avgShortPrice, volume, orders, counter>>
    ]_vars

\* C2 witness: a call has returned ErrInsufficientFunds while an earlier
\* order keeps part of the balance locked.
C2_Witness ==
  /\ ret.err = ErrInsufficientFunds
  /\ \E i \in 1..Len(orders) : orders[i].Status = OrderStatusTypeNew
  /\ \E a \in DOMAIN assets : assets[a].Lock # Zero

\* C3: every asset of the wallet has free >= 0 and locked >= 0.
C3_BalancesNonNegative ==
  \A a \in DOMAIN assets : FGe(assets[a].Free, Zero) /\ FGe(assets[a].Lock, Zero)

\* ---- reading one OnCandle step ----
\* the balances as a total map, zero for an asset the wallet has no entry for
ledger(as) == [a \in AllAssets |-> Balance(as, a)]
\* order i was pending before the step and is Filled after it
newlyFilled(i) ==
  /\ orders[i].Status = OrderStatusTypeNew
  /\ orders'[i].Status = OrderStatusTypeFilled
\* orders i and j are two orders of one group
siblings(i, j) ==
  /\ i # j
  /\ isPtr(orders[i].GroupID)
  /\ orders[i].GroupID = orders[j].GroupID
isStop(o) == o.Type \in {OrderTypeStopLoss, OrderTypeStopLossLimit}
isLimit(o) == o.Type \in {OrderTypeLimit, OrderTypeLimitMaker, OrderTypeTakeProfit}
\* the price a sell order is to be executed at: its stop for a stop order, its
\* price for a limit order
execPrice(o) == IF isStop(o) THEN o.Stop[1] ELSE o.Price
\* the bar reaches the sell order
sellTriggered(o, c) ==
  \/ isLimit(o) /\ FGe(c.High, o.Price)
  \/ isStop(o) /\ FLe(c.Low, o.Stop[1])

\* the balances l after the fill of order o alone
fillAlone(l, o) ==
  LET a == SplitAssetQuote(o.Pair)[1]
      q == SplitAssetQuote(o.Pair)[2]
  IN  IF o.Side = SideTypeSell
        THEN [l EXCEPT ![a].Lock = FSub(@, o.Quantity),
                       ![q].Free = FAdd(@, FMul(o.Quantity, execPrice(o)))]
        ELSE [l EXCEPT ![a].Free = FAdd(@, o.Quantity),
                       ![q].Lock = FSub(@, FMul(o.Price, o.Quantity))]

\* the balances l after the fills of the orders among the first n that the
\* step filled
RECURSIVE fillsAlone(_, _, _, _)
fillsAlone(l, os, osn, n) ==
  IF n = 0 THEN l
  ELSE LET rest == fillsAlone(l, os, osn, n - 1)
       IN  IF os[n].Status = OrderStatusTypeNew
              /\ osn[n].Status = OrderStatusTypeFilled
             THEN fillAlone(rest, os[n]) ELSE rest

\* C4 (as claimed): when OnCandle fills an order of a group, every other order
\* of the group is Canceled after the call, with UpdatedAt the bar's time, for
\* buy groups as for sell groups.
C4_FillCancelsGroup ==
  [][candleStep =>
       \A i \in 1..Len(orders), j \in 1..Len(orders) :
         (newlyFilled(i) /\ siblings(i, j))
           => /\ orders'[j].Status = OrderStatusTypeCanceled
              /\ orders'[j].UpdatedAt = ret'.candle.Time
    ]_vars

C6_CancelFilledNoOp ==
  [][\A i \in 1..Len(orders) :
       (orders[i].Status = OrderStatusTypeFilled /\ Cancel(orders[i].ExchangeID))
         => UNCHANGED <<orders, assets, avgLongPrice, avgShortPrice, volume>>
    ]_vars

\* the pending sell orders of the bar's pair, before the step
pendingOn(i, side) ==
  /\ orders[i].Status = OrderStatusTypeNew
  /\ orders[i].Side = side
  /\ orders[i].Pair = ret'.candle.Pair
\* the step leaves order i as it was
untouched(i) == orders'[i] = orders[i]
\* the step cancels order i because it fills an order of its group
canceledBySibling(i) ==
  /\ orders'[i] = [orders[i] EXCEPT !.Status = OrderStatusTypeCanceled,
                                    !.UpdatedAt = ret'.candle.Time]
  /\ \E j \in 1..Len(orders) : siblings(i, j) /\ newlyFilled(j)
\* what the fills of the step alone make of the balances
afterFills == fillsAlone(ledger(assets), orders, orders', Len(orders))

\* C7 (as claimed): a pending sell order is filled by a bar of its pair exactly
\* when the bar reaches it (high >= price for a limit order, low <= stop for a
\* stop order).
C7_SellFillsExactlyWhenReached ==
  [][candleStep =>
       \A i \in 1..Len(orders) :
         pendingOn(i, SideTypeSell) =>
           (newlyFilled(i) <=> sellTriggered(orders[i], ret'.candle))
    ]_vars

\* C7 (amended): a pending sell order is filled by a bar of its pair exactly
\* when the bar reaches it and no order of its group is filled earlier in the
\* same call; the fill stamps the bar's time and credits quote free with
\* quantity * price (limit) or quantity * stop (stop); an order that is not
\* filled stays as it was, or is Canceled by the fill of its sibling; without
\* a fill the balances are unchanged.
C7_SellFills ==
  [][candleStep =>
       /\ \A i \in 1..Len(orders) :
            pendingOn(i, SideTypeSell) =>
              IF /\ sellTriggered(orders[i], ret'.candle)
                 /\ ~ \E j \in 1..(i - 1) : siblings(i, j) /\ newlyFilled(j)
                THEN orders'[i] = [orders[i] EXCEPT
                                     !.Status = OrderStatusTypeFilled,
                                     !.UpdatedAt = ret'.candle.Time]
                ELSE untouched(i) \/ canceledBySibling(i)
       /\ Balance(assets', baseCoin).Free = afterFills[baseCoin].Free
       /\ (\A i \in 1..Len(orders) : ~ newlyFilled(i))
            => ledger(assets') = ledger(assets)
    ]_vars

\* C7 witness: the bar reaches both legs of a sell group; the limit leg is
\* Filled and the stop leg, reached too, is Canceled.
C7_Witness ==
  \E i \in 1..Len(orders), j \in 1..Len(orders) :
    /\ i < j /\ isPtr(orders[i].GroupID)
    /\ orders[i].GroupID = orders[j].GroupID
    /\ orders[i].Side = SideTypeSell
    /\ isLimit(orders[i]) /\ isStop(orders[j])
    /\ orders[i].Status = OrderStatusTypeFilled
    /\ orders[j].Status = OrderStatusTypeCanceled
    /\ ret.candle.Time = orders[i].UpdatedAt
    /\ ret.candle.Time = orders[j].UpdatedAt
    /\ FGe(ret.candle.High, orders[i].Price)
    /\ FLe(ret.candle.Low, orders[j].Stop[1])

\* C8: a pending buy limit order is filled by a bar of its pair exactly when
\* close <= price; the fill sets Filled and the bar's time and nothing else of
\* the order; the fills of the bar add their quantities to asset free and take
\* price * quantity from quote locked; an order that is not filled is
\* unchanged, and without a fill so are the balances.
C8_BuyLimitFills ==
  [][candleStep =>
       /\ \A i \in 1..Len(orders) :
            (pendingOn(i, SideTypeBuy) /\ isLimit(orders[i])) =>
              IF FLe(ret'.candle.Close, orders[i].Price)
                THEN orders'[i] = [orders[i] EXCEPT
                                     !.Status = OrderStatusTypeFilled,
                                     !.UpdatedAt = ret'.candle.Time]
                ELSE untouched(i)
       /\ \A a \in AssetNames :
            Balance(assets', a).Free = afterFills[a].Free
       /\ Balance(assets', baseCoin).Lock = afterFills[baseCoin].Lock
       /\ (\A i \in 1..Len(orders) : ~ newlyFilled(i))
            => ledger(assets') = ledger(assets)
    ]_vars

\* C8 witness: a buy limit order filled by a bar that closes below its price:
\* the asset is free, the lock on the quote is gone, the quote paid is the
\* order's price.
C8_Witness ==
  /\ Len(orders) = 1
  /\ orders[1].Side = SideTypeBuy /\ orders[1].Type = OrderTypeLimit
  /\ orders[1].Status = OrderStatusTypeFilled
  /\ orders[1].UpdatedAt = ret.candle.Time
  /\ FLt(ret.candle.Close, orders[1].Price)
  /\ Balance(assets, "A").Free = orders[1].Quantity
  /\ Balance(assets, baseCoin).Lock = Zero
  /\ Balance(assets, baseCoin).Free =
       FSub(R(InitialQuote), FMul(orders[1].Price, orders[1].Quantity))

\* C9 (as claimed): a bar older than the last bar seen for its pair fills no
\* order, does not replace the last bar and appends no equity sample.
C9_StaleBarRejected ==
  [][(candleStep /\ ret'.candle.Time < lastCandle[ret'.candle.Pair].Time)
       => UNCHANGED <<lastCandle, orders, equityValues>>
    ]_vars

\* the value of the holdings of the assets S, at the last close of their pairs
RECURSIVE holdings(_, _, _, _)
holdings(as, avgS, lc, S) ==
  IF S = {} THEN Zero
  ELSE LET x == CHOOSE y \in S : TRUE
           a == FAdd(Balance(as, x).Free, Balance(as, x).Lock)
           close == lc[PairOf(x)].Close
           value == IF FGe(a, Zero)
                      THEN FMul(a, close)
                      ELSE FSub(FMul(FMul(R(2), MathAbs(a)), avgS[PairOf(x)]),
                                FMul(MathAbs(a), close))
       IN  FAdd(value, holdings(as, avgS, lc, S \ {x}))

\* C10: a complete bar appends exactly one equity sample, stamped with the
\* bar's time, of value base free + locked plus the holdings of every other
\* asset (a * lastClose for a >= 0, 2*|a|*avgShort - |a|*lastClose for a < 0);
\* a partial bar, and every other operation, appends none.
C10_EquitySample ==
  [][IF candleStep /\ ret'.candle.Complete
       THEN /\ Len(equityValues') = Len(equityValues) + 1
            /\ SubSeq(equityValues', 1, Len(equityValues)) = equityValues
            /\ equityValues'[Len(equityValues')] =
                 [Time |-> ret'.candle.Time,
                  Value |-> FAdd(FAdd(Balance(assets', baseCoin).Free,
                                      Balance(assets', baseCoin).Lock),
                                 holdings(assets', avgShortPrice', lastCandle',
                                          AssetNames))]
       ELSE equityValues' = equityValues
    ]_vars

\* C10 witness: a sample taken while the asset is held short, on a bar that
\* closes away from the average short price.
C10_Witness ==
  /\ ret.candle.Complete
  /\ Len(equityValues) >= 1
  /\ equityValues[Len(equityValues)].Time = ret.candle.Time
  /\ FLt(FAdd(Balance(assets, "A").Free, Balance(assets, "A").Lock), Zero)
  /\ avgShortPrice[PairOf("A")] # ret.candle.Close
  /\ equityValues[Len(equityValues)].Value =
       FAdd(FAdd(Balance(assets, baseCoin).Free, Balance(assets, baseCoin).Lock),
            holdings(assets, avgShortPrice, lastCandle, {"A"}))

(* ------------------------ candles of several pairs ---------------------- *)
\* the feed hands the wallet a candle of any pair, the candles of each pair in
\* non-decreasing time order
OrderedCandle(c) ==
  /\ c.Time >= lastCandle[c.Pair].Time
  /\ OnCandle(c)

NextFeed == \E c \in Candles(Pairs) : Tick /\ OrderedCandle(c)

SpecFeed == Init /\ [][NextFeed]_vars

\* C11 (as claimed): with the candles of each pair in non-decreasing time order,
\* the timestamps of equityValues are non-decreasing.
C11_EquityTimeOrdered ==
  \A i \in 1..Len(equityValues), j \in 1..Len(equityValues) :
    i < j => equityValues[i].Time <= equityValues[j].Time

(* ----------------------------- MaxDrawdown ------------------------------ *)
\* math.MaxFloat64, by a number above every equity value and difference here
MaxFloat64 == 1048576

\* the walk's variables before the loop
drawdownStart(ev) ==
  [localMin |-> R(MaxFloat64), localMinBase |-> ev[1].Value,
   localMinStart |-> ev[1].Time, localMinEnd |-> ev[1].Time,
   globalMin |-> R(MaxFloat64), globalMinBase |-> ev[1].Value,
   globalMinStart |-> ev[1].Time, globalMinEnd |-> ev[1].Time]

\* variant: an accumulation that goes on keeps the end it had
drawdownStep_KeepEnd(st, ev, i) ==
  LET diff == FSub(ev[i].Value, ev[i - 1].Value)
      loc == IF FGt(st.localMin, Zero)
               THEN [st EXCEPT !.localMin = diff,
                               !.localMinBase = ev[i - 1].Value,
                               !.localMinStart = ev[i - 1].Time,
                               !.localMinEnd = ev[i].Time]
               ELSE [st EXCEPT !.localMin = FAdd(@, diff)]
  IN  IF FLt(loc.localMin, loc.globalMin)
        THEN [loc EXCEPT !.globalMin = loc.localMin,
                         !.globalMinBase = loc.localMinBase,
                         !.globalMinStart = loc.localMinStart,
                         !.globalMinEnd = loc.localMinEnd]
        ELSE loc

\* one iteration of the loop, at sample i (the second sample is the first one
\* it visits)
drawdownStep(st, ev, i) ==
  LET diff == FSub(ev[i].Value, ev[i - 1].Value)
      loc == IF FGt(st.localMin, Zero)
               THEN [st EXCEPT !.localMin = diff,
                               !.localMinBase = ev[i - 1].Value,
                               !.localMinStart = ev[i - 1].Time,
                               !.localMinEnd = ev[i].Time]
               ELSE [st EXCEPT !.localMin = FAdd(@, diff),
                               !.localMinEnd = ev[i].Time]
  IN  IF FLt(loc.localMin, loc.globalMin)
        THEN [loc EXCEPT !.globalMin = loc.localMin,
                         !.globalMinBase = loc.localMinBase,
                         !.globalMinStart = loc.localMinStart,
                         !.globalMinEnd = loc.localMinEnd]
        ELSE loc

RECURSIVE drawdownWalk(_, _, _)
drawdownWalk(st, ev, i) ==
  IF i > Len(ev) THEN st
  ELSE drawdownWalk(drawdownStep(st, ev, i), ev, i + 1)

\* MaxDrawdown over the equity values ev
MaxDrawdown(ev) ==
  IF Len(ev) < 1 THEN [called |-> TRUE, Value |-> Zero, Start |-> 0, End |-> 0]
  ELSE LET st == drawdownWalk(drawdownStart(ev), ev, 2)
       IN  [called |-> TRUE, Value |-> FDiv(st.globalMin, st.globalMinBase),
            Start |-> st.globalMinStart, End |-> st.globalMinEnd]

\* the equity series the walk is checked on: up to MaxSamples samples of
\* positive value, stamped with increasing times
MaxSamples == 4
MaxValue == 3
MaxStamp == 4
Series ==
  UNION {{ev \in [1..n -> [Time : 1..MaxStamp, Value : {R(v) : v \in 1..MaxValue}]] :
            \A i \in 1..(n - 1) : ev[i].Time < ev[i + 1].Time} : n \in 0..MaxSamples}

InitDrawdown ==
  /\ assets = (baseCoin :> assetInfo(R(InitialQuote), Zero))
  /\ avgShortPrice = [p \in Pairs |-> Zero]
  /\ avgLongPrice = [p \in Pairs |-> Zero]
  /\ volume = [p \in Pairs |-> Zero]
  /\ lastCandle = [p \in Pairs |-> seen(zeroCandle)]
  /\ orders = <<>>
  /\ counter = 0
  /\ assetValues = [a \in AssetNames \cup {baseCoin} |-> <<>>]
  /\ equityValues \in Series
  /\ ret = Returned(Nil)
  /\ calls = 0
  /\ drawdown = noDrawdown
  /\ job = noJob
  /\ reads = noRead
  /\ asked = noAsked
  /\ trip = noTrip
  /\ NewTools
  /\ NewController

CallMaxDrawdown ==
  /\ drawdown' = MaxDrawdown(equityValues)
  /\ UNCHANGED <<assets, avgShortPrice, avgLongPrice, volume, lastCandle,
                 orders, counter, assetValues, equityValues, ret, calls,
                 job, reads, asked, trip, toolVars>>
  /\ UNCHANGED controllerVars

NextDrawdown == CallMaxDrawdown

SpecDrawdown == InitDrawdown /\ [][NextDrawdown]_vars

\* C12 (as claimed): with fewer than 2 samples MaxDrawdown returns 0 and two
\* zero timestamps.
C12_FewSamplesZero ==
  (drawdown.called /\ Len(equityValues) < 2)
    => drawdown.Value = Zero /\ drawdown.Start = 0 /\ drawdown.End = 0

strictlyIncreasing(ev, from, to) ==
  \A i \in from..(to - 1) : FLt(ev[i].Value, ev[i + 1].Value)
strictlyDecreasing(ev, from, to) ==
  \A i \in from..(to - 1) : FGt(ev[i].Value, ev[i + 1].Value)

\* C13 (as claimed): for a strictly increasing series of at least 2 samples
\* MaxDrawdown returns the fraction 0.
C13_IncreasingZero ==
  (drawdown.called /\ Len(equityValues) >= 2
   /\ strictlyIncreasing(equityValues, 1, Len(equityValues)))
    => drawdown.Value = Zero

\* the series falls from its first sample to the sample k and rises from there
VShape(ev, k) ==
  /\ 1 < k /\ k < Len(ev)
  /\ strictlyDecreasing(ev, 1, k)
  /\ strictlyIncreasing(ev, k, Len(ev))

\* C14: for a series that falls from a base B to a trough T and then rises,
\* MaxDrawdown returns (T - B) / B, from the time of the base sample to the
\* time of the trough sample.
C14_VShape ==
  \A k \in 1..Len(equityValues) :
    (drawdown.called /\ VShape(equityValues, k))
      => /\ drawdown.Value = FDiv(FSub(equityValues[k].Value, equityValues[1].Value),
                                  equityValues[1].Value)
         /\ drawdown.Start = equityValues[1].Time
         /\ drawdown.End = equityValues[k].Time

\* C14 witness: a fall in two steps and a rise above the base
C14_Witness ==
  /\ drawdown.called
  /\ Len(equityValues) = 4
  /\ VShape(equityValues, 3)
  /\ FGt(equityValues[4].Value, equityValues[3].Value)
  /\ drawdown.Value = FDiv(R(0 - 2), R(3))
  /\ drawdown.End = equityValues[3].Time

(* ------------------------- realized profit ------------------------------ *)
\* the profitValue updateAveragePrice logs ("PROFIT = ..."); NilPtr when the
\* call logs none
profitValue(as, avgL, avgS, side, pair, amount, value) ==
  LET asset == SplitAssetQuote(pair)[1]
      actualQty == IF asset \in DOMAIN as THEN as[asset].Free ELSE Zero
  IN  IF FGt(actualQty, Zero) /\ side = SideTypeSell
        THEN Ptr(FSub(FMul(amount, value),
                      FMul(MathMin(amount, actualQty), avgL[pair])))
      ELSE IF FLt(actualQty, Zero) /\ side = SideTypeBuy
        THEN Ptr(FSub(FMul(MathMin(amount, FNeg(actualQty)), avgS[pair]),
                      FMul(amount, value)))
      ELSE NilPtr

\* the assets when validateFunds calls updateAveragePrice: the locked asset
\* and quote are taken from Free already
reserved(as0, avgS, side, pair, amount, value) ==
  LET asset == SplitAssetQuote(pair)[1]
      quote == SplitAssetQuote(pair)[2]
      as1 == Ensure(Ensure(as0, asset), quote)
      aFree == as1[asset].Free
  IN  IF side = SideTypeSell
        THEN LET lockedAsset == lockedAssetSell(aFree, amount)
             IN  [as1 EXCEPT ![asset].Free = FSub(@, lockedAsset),
                             ![quote].Free =
                                FSub(@, FMul(FSub(amount, lockedAsset), value))]
        ELSE LET lockedAsset == lockedAssetBuy(aFree, amount)
                 liquid == liquidShortValue(aFree, avgS[pair], value)
             IN  [as1 EXCEPT ![asset].Free = FAdd(@, lockedAsset),
                             ![quote].Free =
                                FSub(@, FSub(FMul(FSub(amount, lockedAsset), value),
                                             liquid))]

\* storage.Orders(WithUpdateAtBeforeOrEqual, WithStatus(Filled), WithPair)
filledBefore(rows, o) ==
  SelectSeq(rows, LAMBDA x : /\ x.UpdatedAt <= o.UpdatedAt
                               /\ x.Status = OrderStatusTypeFilled
                               /\ x.Pair = o.Pair)

\* the price calculateProfit takes for an order
replayPrice(order) ==
  IF order.Type \in {OrderTypeStopLoss, OrderTypeStopLossLimit}
    THEN order.Stop[1] ELSE order.Price

\* one iteration of the replay loop; st: quantity, avgPriceLong, avgPriceShort
replayOrder(st, o, order) ==
  LET price == replayPrice(order)
      diff == IF order.Side = SideTypeSell THEN FNeg(order.Quantity)
              ELSE order.Quantity
      avg(old) == FDiv(FAdd(FMul(order.Quantity, price),
                            FMul(old, MathAbs(st.quantity))),
                       FAdd(order.Quantity, MathAbs(st.quantity)))
      st1 == IF order.Side = SideTypeBuy /\ FGe(FAdd(st.quantity, diff), Zero)
               THEN [st EXCEPT !.avgPriceLong = avg(@)]
             ELSE IF order.Side = SideTypeSell /\ FLe(FAdd(st.quantity, diff), Zero)
               THEN [st EXCEPT !.avgPriceShort = avg(@)]
             ELSE st
  IN  IF o.ID = order.ID THEN st
      ELSE [st1 EXCEPT !.quantity = FAdd(@, diff)]

RECURSIVE replay(_, _, _, _)
replay(st, o, os, i) ==
  IF i > Len(os) THEN st
  ELSE replay(replayOrder(st, o, os[i]), o, os, i + 1)

\* calculateProfit(o) over the orders os the storage returned: the profit value
calculateProfit(o, os) ==
  LET st == replay([quantity |-> Zero, avgPriceLong |-> Zero,
                    avgPriceShort |-> Zero], o, os, 1)
  IN  IF st.quantity = Zero THEN Zero
      ELSE IF o.Side = SideTypeBuy /\ FLt(st.quantity, Zero)
        THEN FMul(FSub(st.avgPriceShort, replayPrice(o)), o.Quantity)
      ELSE IF o.Side = SideTypeSell /\ FGt(st.quantity, Zero)
        THEN FMul(FSub(replayPrice(o), st.avgPriceLong), o.Quantity)
      ELSE Zero

\* the wallet's orders as the storage holds them, once all are stored and
\* reconciled
storedOrders(os) == [i \in 1..Len(os) |-> [ID |-> os[i].ExchangeID] @@ os[i]]

\* C15 (as claimed): for a sequence of market fills on one pair, at prices above
\* 0 and with the bars in time order, the profit the engine computes for a
\* closing order equals the profit calculateProfit computes for that order.
C15_ProfitAgrees ==
  [][(/\ appendsOne
      /\ \A i \in 1..Len(orders') :
           /\ orders'[i].Type = OrderTypeMarket
           /\ orders'[i].Status = OrderStatusTypeFilled
           /\ orders'[i].Price # Zero
           /\ orders'[i].UpdatedAt <= appended.UpdatedAt)
       => LET engine == profitValue(reserved(assets, avgShortPrice, appended.Side,
                                             appended.Pair, appended.Quantity,
                                             appended.Price),
                                    avgLongPrice, avgShortPrice, appended.Side,
                                    appended.Pair, appended.Quantity, appended.Price)
              rows == storedOrders(orders')
              o == rows[Len(rows)]
          IN  isPtr(engine)
                => calculateProfit(o, filledBefore(rows, o)) = engine[1]
    ]_vars

(* --------------------------- order controller --------------------------- *)
MaxCtlOrders == 2
ErrVenue == "exchange error"
ErrStorage == "storage error"

\* an order as the storage holds it, and an event of the order feed
storedOrder(id, ex, st) == [ID |-> id, ExchangeID |-> ex, Status |-> st]
event(o, created) ==
  [ID |-> o.ID, ExchangeID |-> o.ExchangeID, Status |-> o.Status,
   created |-> created]

\* the statuses updateOrders asks the storage for
PendingStatuses ==
  {OrderStatusTypeNew, OrderStatusTypePartiallyFilled, OrderStatusTypePendingCancel}
pending(rows) == {i \in 1..Len(rows) : rows[i].Status \in PendingStatuses}

\* processTrade(order): an order that is not Filled is left out
processTrade(done, o) ==
  IF o.Status = OrderStatusTypeFilled THEN Append(done, o.ID) ELSE done

RECURSIVE processTrades(_, _, _)
processTrades(done, os, i) ==
  IF i > Len(os) THEN done
  ELSE processTrades(processTrade(done, os[i]), os, i + 1)

\* c.mtx.Unlock(): unlocking a mutex that is not locked is a fatal error of
\* the runtime
Unlock ==
  IF locked THEN locked' = FALSE /\ crashed' = FALSE
  ELSE locked' = FALSE /\ crashed' = TRUE

\* Start(): the loop goroutine is spawned when the status is not running
ControllerStart(g) ==
  /\ ~crashed
  /\ ctlStatus # StatusRunning
  /\ pc[g] = "none"
  /\ \A h \in Loops : h[2] < g[2] => pc[h] # "none"
  /\ ctlStatus' = StatusRunning
  /\ pc' = [pc EXCEPT ![g] = "select"]
  /\ UNCHANGED <<locked, stored, venue, spawned, feed, trades, writes, pass,
                 request, crashed>>
  /\ UNCHANGED snapshot
  /\ UNCHANGED walletVars

\* case <-ticker.C: c.updateOrders()
LoopTick(g) ==
  /\ ~crashed
  /\ pc[g] = "select"
  /\ pc' = [pc EXCEPT ![g] = "uoLock"]
  /\ UNCHANGED <<ctlStatus, locked, stored, venue, spawned, feed, trades,
                 writes, pass, request, crashed>>
  /\ UNCHANGED snapshot
  /\ UNCHANGED walletVars

\* case <-c.finish, with the c.finish <- true of a Stop: the channel has no
\* buffer, sender and receiver meet
LoopFinish(g, s) ==
  /\ ~crashed
  /\ pc[g] = "select"
  /\ pc[s] = "send"
  /\ pc' = [pc EXCEPT ![g] = "halted", ![s] = "done"]
  /\ UNCHANGED <<ctlStatus, locked, stored, venue, spawned, feed, trades,
                 writes, pass, request, crashed>>
  /\ UNCHANGED snapshot
  /\ UNCHANGED walletVars

\* Stop(): if c.status == StatusRunning
StopCheck(s) ==
  /\ ~crashed
  /\ pc[s] = "idle"
  /\ pc' = [pc EXCEPT ![s] = IF ctlStatus = StatusRunning THEN "set" ELSE "done"]
  /\ UNCHANGED <<ctlStatus, locked, stored, venue, spawned, feed, trades,
                 writes, pass, request, crashed>>
  /\ UNCHANGED snapshot
  /\ UNCHANGED walletVars

\* Stop(): c.status = StatusStopped, then c.updateOrders()
StopSet(s) ==
  /\ ~crashed
  /\ pc[s] = "set"
  /\ ctlStatus' = StatusStopped
  /\ pc' = [pc EXCEPT ![s] = "uoLock"]
  /\ UNCHANGED <<locked, stored, venue, spawned, feed, trades, writes, pass,
                 request, crashed>>
  /\ UNCHANGED snapshot
  /\ UNCHANGED walletVars

\* updateOrders: c.mtx.Lock()
updateOrdersLock(t) ==
  /\ ~crashed
  /\ pc[t] = "uoLock"
  /\ ~locked
  /\ locked' = TRUE
  /\ pc' = [pc EXCEPT ![t] = "uoQuery"]
  /\ UNCHANGED <<ctlStatus, stored, venue, spawned, feed, trades, writes, pass,
                 request, crashed>>
  /\ UNCHANGED snapshot
  /\ UNCHANGED walletVars

\* updateOrders: the storage query fails: notifyError, c.mtx.Unlock(), return;
\* the deferred Unlock is still to run
updateOrdersQueryFails(t) ==
  /\ ~crashed
  /\ pc[t] = "uoQuery"
  /\ Unlock
  /\ pass' = [ok |-> FALSE, failed |-> {}]
  /\ pc' = [pc EXCEPT ![t] = "uoDefer"]
  /\ writes' = <<>>
  /\ request' = noRequest
  /\ UNCHANGED <<ctlStatus, stored, venue, spawned, feed, trades>>
  /\ UNCHANGED snapshot
  /\ UNCHANGED walletVars

\* variant: an order is updated whether or not its status changed
reconcile_Always(order, statuses, out) ==
  IF out = "ok"
    THEN <<[order EXCEPT !.Status = statuses[order.ExchangeID]]>>
    ELSE <<>>

\* variant: the error of the storage update is ignored
reconcile_IgnoreErr(order, statuses, out) ==
  IF out = "lookup" \/ statuses[order.ExchangeID] = order.Status
    THEN <<>>
    ELSE <<[order EXCEPT !.Status = statuses[order.ExchangeID]]>>

\* the body of the loop of updateOrders for one pending order: what it appends
\* to updatedOrders; out "lookup": c.exchange.Order fails, out "update":
\* c.storage.UpdateOrder fails
reconcile(order, statuses, out) ==
  LET excOrder == [order EXCEPT !.Status = statuses[order.ExchangeID]]
  IN
  IF out = "lookup" THEN <<>>
  ELSE IF excOrder.Status = order.Status THEN <<>>
  ELSE IF out = "update" THEN <<>>
  ELSE <<excOrder>>

\* updatedOrders after the loop over the pending orders from the i-th row on
RECURSIVE reconcileAll(_, _, _, _)
reconcileAll(rows, statuses, outcome, i) ==
  IF i > Len(rows) THEN <<>>
  ELSE IF rows[i].Status \in PendingStatuses
    THEN reconcile(rows[i], statuses, outcome[i])
           \o reconcileAll(rows, statuses, outcome, i + 1)
    ELSE reconcileAll(rows, statuses, outcome, i + 1)

\* the storage after UpdateOrder of each order of os
updateAll(rows, os) ==
  [i \in 1..Len(rows) |->
     IF \E k \in 1..Len(os) : os[k].ID = i
       THEN os[CHOOSE k \in 1..Len(os) : os[k].ID = i]
       ELSE rows[i]]

\* updateOrders with the pending orders read: for each of them the lookup at
\* the exchange or the update of the storage may fail (the order is skipped);
\* the orders updated are then processed and published in turn, and the
\* deferred c.mtx.Unlock() runs
updateOrdersPass(t, outcome) ==
  LET updatedOrders == reconcileAll(stored, venue, outcome, 1)
  IN
  /\ ~crashed
  /\ pc[t] = "uoQuery"
  /\ \A i \in pending(stored) :
       outcome[i] = "update" => venue[stored[i].ExchangeID] # stored[i].Status
  /\ stored' = updateAll(stored, updatedOrders)
  /\ writes' = updatedOrders
  /\ trades' = processTrades(trades, updatedOrders, 1)
  /\ feed' = feed \o [k \in 1..Len(updatedOrders) |-> event(updatedOrders[k], FALSE)]
  /\ pass' = [ok |-> TRUE,
              failed |-> {stored[i].ID : i \in {j \in pending(stored) : outcome[j] # "ok"}}]
  /\ request' = noRequest
  /\ Unlock
  /\ pc' = [pc EXCEPT ![t] = IF t \in Loops THEN "select" ELSE "send"]
  /\ UNCHANGED <<ctlStatus, venue, spawned>>
  /\ UNCHANGED snapshot
  /\ UNCHANGED walletVars

\* updateOrders returns after the query failed: the deferred c.mtx.Unlock()
\* runs; the loop goes back to its select, Stop goes on to c.finish <- true
updateOrdersReturn(t) ==
  /\ ~crashed
  /\ pc[t] = "uoDefer"
  /\ Unlock
  /\ pc' = [pc EXCEPT ![t] = IF t \in Loops THEN "select" ELSE "send"]
  /\ UNCHANGED <<ctlStatus, stored, venue, spawned, feed, trades, writes, pass,
                 request>>
  /\ UNCHANGED snapshot
  /\ UNCHANGED walletVars

\* the order operations of the controller: c.mtx.Lock() at their entry
Ops == {"limit", "market", "oco", "cancel"}
CallerLock(op) ==
  /\ ~crashed
  /\ pc[Caller] = "idle"
  /\ ~locked
  /\ op \in {"limit", "market"} => Len(venue) + 1 <= MaxCtlOrders
  /\ op = "oco" => Len(venue) + 2 <= MaxCtlOrders
  /\ op = "cancel" => \E i \in 1..Len(stored) : stored[i].Status = OrderStatusTypeNew
  /\ locked' = TRUE
  /\ pc' = [pc EXCEPT ![Caller] = op]
  /\ UNCHANGED <<ctlStatus, stored, venue, spawned, feed, trades, writes, pass,
                 request, crashed>>
  /\ UNCHANGED snapshot
  /\ UNCHANGED walletVars

\* what a creation returned: its error and the orders the exchange made for it
Request(op, err, made) == [op |-> op, err |-> err, made |-> made]

\* CreateOrderLimit and CreateOrderStop of the controller; fail: the call that
\* returns an error
ControllerCreateOrderLimit(fail) ==
  LET ex == Len(venue) + 1
      o == storedOrder(Len(stored) + 1, ex, OrderStatusTypeNew)
  IN
  /\ ~crashed
  /\ pc[Caller] = "limit"
  /\ venue' = IF fail = "exchange" THEN venue ELSE Append(venue, OrderStatusTypeNew)
  /\ IF fail = "none"
       THEN /\ stored' = Append(stored, o)
            /\ writes' = <<o>>
            /\ spawned' = spawned \cup {event(o, TRUE)}
            /\ request' = Request("limit", Nil, {ex})
       ELSE /\ UNCHANGED <<stored, spawned>>
            /\ writes' = <<>>
            /\ request' =
                 (IF fail = "exchange" THEN Request("limit", ErrVenue, {})
                  ELSE Request("limit", ErrStorage, {ex}))
  /\ Unlock
  /\ pc' = [pc EXCEPT ![Caller] = "idle"]
  /\ UNCHANGED <<ctlStatus, feed, trades>>
  /\ UNCHANGED snapshot
  /\ UNCHANGED walletVars
  /\ pass' = noPass

\* CreateOrderMarket and CreateOrderMarketQuote of the controller
ControllerCreateOrderMarket(fail) ==
  LET ex == Len(venue) + 1
      o == storedOrder(Len(stored) + 1, ex, OrderStatusTypeFilled)
  IN
  /\ ~crashed
  /\ pc[Caller] = "market"
  /\ venue' = IF fail = "exchange" THEN venue ELSE Append(venue, OrderStatusTypeFilled)
  /\ IF fail = "none"
       THEN /\ stored' = Append(stored, o)
            /\ writes' = <<o>>
            /\ trades' = processTrade(trades, o)
            /\ spawned' = spawned \cup {event(o, TRUE)}
            /\ request' = Request("market", Nil, {ex})
       ELSE /\ UNCHANGED <<stored, trades, spawned>>
            /\ writes' = <<>>
            /\ request' =
                 (IF fail = "exchange" THEN Request("market", ErrVenue, {})
                  ELSE Request("market", ErrStorage, {ex}))
  /\ Unlock
  /\ pc' = [pc EXCEPT ![Caller] = "idle"]
  /\ UNCHANGED <<ctlStatus, feed>>
  /\ UNCHANGED snapshot
  /\ UNCHANGED walletVars
  /\ pass' = noPass

\* CreateOrderOCO of the controller: the two orders of the exchange are stored
\* and published one after the other; fail "storage1", "storage2": the
\* CreateOrder of that order fails
ControllerCreateOrderOCO(fail) ==
  LET ex1 == Len(venue) + 1
      ex2 == Len(venue) + 2
      o1 == storedOrder(Len(stored) + 1, ex1, OrderStatusTypeNew)
      o2 == storedOrder(Len(stored) + 2, ex2, OrderStatusTypeNew)
      kept == IF fail = "none" THEN <<o1, o2>>
              ELSE IF fail = "storage2" THEN <<o1>> ELSE <<>>
  IN
  /\ ~crashed
  /\ pc[Caller] = "oco"
  /\ venue' = IF fail = "exchange" THEN venue
              ELSE venue \o <<OrderStatusTypeNew, OrderStatusTypeNew>>
  /\ stored' = stored \o kept
  /\ writes' = kept
  /\ spawned' = spawned \cup {event(kept[k], TRUE) : k \in 1..Len(kept)}
  /\ request' =
       (IF fail = "none" THEN Request("oco", Nil, {ex1, ex2})
        ELSE IF fail = "exchange" THEN Request("oco", ErrVenue, {})
        ELSE Request("oco", ErrStorage, {ex1, ex2}))
  /\ Unlock
  /\ pc' = [pc EXCEPT ![Caller] = "idle"]
  /\ UNCHANGED <<ctlStatus, feed, trades>>
  /\ UNCHANGED snapshot
  /\ UNCHANGED walletVars
  /\ pass' = noPass

\* Cancel(order) of the controller, for a stored order that is New
ControllerCancel(i, fail) ==
  LET o == [stored[i] EXCEPT !.Status = OrderStatusTypePendingCancel]
  IN
  /\ ~crashed
  /\ pc[Caller] = "cancel"
  /\ stored[i].Status = OrderStatusTypeNew
  /\ venue[stored[i].ExchangeID] \in {OrderStatusTypeNew, OrderStatusTypePartiallyFilled}
       \/ fail = "exchange"
  /\ venue' = IF fail = "exchange" THEN venue
              ELSE [venue EXCEPT ![stored[i].ExchangeID] = OrderStatusTypeCanceled]
  /\ IF fail = "none"
       THEN stored' = [stored EXCEPT ![i] = o] /\ writes' = <<o>>
       ELSE UNCHANGED stored /\ writes' = <<>>
  /\ Unlock
  /\ pc' = [pc EXCEPT ![Caller] = "idle"]
  /\ UNCHANGED <<ctlStatus, spawned, feed, trades>>
  /\ UNCHANGED snapshot
  /\ UNCHANGED walletVars
  /\ request' = Request("cancel",
                         IF fail = "none" THEN Nil
                         ELSE IF fail = "exchange" THEN ErrVenue ELSE ErrStorage,
                         {})
  /\ pass' = noPass

\* the exchange fills or cancels an order
ExchangeUpdate(ex, st) ==
  /\ ~crashed
  /\ \/ venue[ex] = OrderStatusTypeNew
     \/ venue[ex] = OrderStatusTypePartiallyFilled /\ st # OrderStatusTypePartiallyFilled
  /\ venue' = [venue EXCEPT ![ex] = st]
  /\ UNCHANGED <<ctlStatus, locked, pc, stored, spawned, feed, trades, writes,
                 pass, request, crashed>>
  /\ UNCHANGED snapshot
  /\ UNCHANGED walletVars

\* a goroutine "go c.orderFeed.Publish(order, true)" publishes
Publish(e) ==
  /\ ~crashed
  /\ e \in spawned
  /\ spawned' = spawned \ {e}
  /\ feed' = Append(feed, e)
  /\ UNCHANGED <<ctlStatus, locked, pc, stored, venue, trades, writes, pass,
                 request, crashed>>
  /\ UNCHANGED snapshot
  /\ UNCHANGED walletVars

Outcomes == [pending(stored) -> {"ok", "lookup", "update"}]

\* one caller of Stop
OneStop == {<<"stop", 1>>}

\* the controller with its loop and one caller of its operations
NextController ==
  \/ \E g \in Loops : ControllerStart(g)
  \/ \E g \in Loops : LoopTick(g)
  \/ \E t \in Loops : updateOrdersLock(t)
  \/ \E t \in Loops : updateOrdersQueryFails(t)
  \/ \E t \in Loops :
       /\ pc[t] = "uoQuery"
       /\ \E outcome \in Outcomes : updateOrdersPass(t, outcome)
  \/ \E t \in Loops : updateOrdersReturn(t)
  \/ \E op \in Ops : CallerLock(op)
  \/ \E fail \in {"none", "exchange", "storage"} : ControllerCreateOrderLimit(fail)
  \/ \E fail \in {"none", "exchange", "storage"} : ControllerCreateOrderMarket(fail)
  \/ \E fail \in {"none", "exchange", "storage1", "storage2"} :
       ControllerCreateOrderOCO(fail)
  \/ /\ pc[Caller] = "cancel"
     /\ \E i \in 1..Len(stored), fail \in {"none", "exchange", "storage"} :
          ControllerCancel(i, fail)
  \/ \E ex \in 1..Len(venue),
        st \in {OrderStatusTypePartiallyFilled, OrderStatusTypeFilled,
                OrderStatusTypeCanceled} : ExchangeUpdate(ex, st)
  \/ \E e \in spawned : Publish(e)

SpecController == Init /\ [][NextController]_vars

\* the controller with concurrent callers of Stop and at most MaxStopOrders
\* limit orders
MaxStopOrders == 1
StopOrder == Len(venue) < MaxStopOrders /\ CallerLock("limit")

NextStop ==
  \/ \E g \in Loops : ControllerStart(g)
  \/ \E g \in Loops : LoopTick(g)
  \/ \E g \in Loops, s \in Stoppers : LoopFinish(g, s)
  \/ \E s \in Stoppers : StopCheck(s)
  \/ \E s \in Stoppers : StopSet(s)
  \/ \E t \in Loops \cup Stoppers : updateOrdersLock(t)
  \/ \E t \in Loops \cup Stoppers : updateOrdersQueryFails(t)
  \/ \E t \in Loops \cup Stoppers, outcome \in Outcomes : updateOrdersPass(t, outcome)
  \/ \E t \in Loops \cup Stoppers : updateOrdersReturn(t)
  \/ StopOrder
  \/ \E fail \in {"none", "exchange", "storage"} : ControllerCreateOrderLimit(fail)
  \/ \E ex \in 1..Len(venue),
        st \in {OrderStatusTypePartiallyFilled, OrderStatusTypeFilled,
                OrderStatusTypeCanceled} : ExchangeUpdate(ex, st)
  \/ \E e \in spawned : Publish(e)

SpecStop == Init /\ [][NextStop]_vars

(* ------------------------- reconciliation pass -------------------------- *)
\* a step in which updateOrders ran past its query of the storage
passStep == \E t \in Loops \cup Stoppers : pc[t] = "uoQuery" /\ pc'[t] # "uoQuery"

\* the order's status at the exchange differs from the one stored
changed(i) == venue[stored[i].ExchangeID] # stored[i].Status

\* how often the step wrote order i to the storage, and how many order-update
\* events it published for it
written(i) == Cardinality({k \in 1..Len(writes') : writes'[k].ID = i})
published(i) ==
  Cardinality({k \in (Len(feed) + 1)..Len(feed') :
                 feed'[k].ID = i /\ ~feed'[k].created})
feedGrows == Len(feed') >= Len(feed) /\ SubSeq(feed', 1, Len(feed)) = feed

\* C16 as stated: in one reconciliation pass every pending order whose status
\* at the exchange differs from the stored one is written to the storage
\* exactly once and exactly one order-update event is published for it; an
\* order whose status is the same is neither written nor published
C16_EveryChangeOnce ==
  [][passStep =>
       /\ feedGrows
       /\ \A i \in 1..Len(stored) :
            IF i \in pending(stored) /\ changed(i)
              THEN written(i) = 1 /\ published(i) = 1
              ELSE written(i) = 0 /\ published(i) = 0]_vars

\* C16 amended: in a reconciliation pass whose query of the storage succeeds,
\* every pending order whose status at the exchange differs from the stored
\* one, and whose lookup at the exchange and update of the storage succeed, is
\* written to the storage exactly once, with the status of the exchange, and
\* exactly one order-update event with that status is published for it; any
\* other order is neither written nor published
C16_ChangeOnce ==
  [][passStep /\ pass'.ok =>
       /\ feedGrows
       /\ \A i \in 1..Len(stored) :
            IF i \in pending(stored) /\ changed(i) /\ i \notin pass'.failed
              THEN /\ written(i) = 1 /\ published(i) = 1
                   /\ \A k \in 1..Len(writes') :
                        writes'[k].ID = i =>
                          writes'[k].Status = venue[stored[i].ExchangeID]
                   /\ \A k \in (Len(feed) + 1)..Len(feed') :
                        feed'[k].ID = i =>
                          feed'[k].Status = venue[stored[i].ExchangeID]
                   /\ stored'[i].Status = venue[stored[i].ExchangeID]
              ELSE written(i) = 0 /\ published(i) = 0]_vars

\* a pass has just written and published one order and left alone another
\* whose status is as stored
C16_Witness ==
  /\ \E t \in Loops \cup Stoppers : pc[t] \in {"select", "send"}
  /\ request = noRequest /\ pass.ok /\ pass.failed = {}
  /\ Len(writes) = 1
  /\ Len(feed) > 0
  /\ feed[Len(feed)] = event(writes[1], FALSE)
  /\ \E i \in pending(stored) : venue[stored[i].ExchangeID] = stored[i].Status

\* a step of updateOrders after its c.mtx.Lock()
updateOrdersStep ==
  \E t \in Loops \cup Stoppers : pc[t] \in {"uoQuery", "uoDefer"} /\ pc'[t] # pc[t]

\* C17: a reconciliation pass in which the query of the storage, a lookup at
\* the exchange or an update of the storage fails returns normally: no step
\* of updateOrders ends in a fatal error of the runtime, and the goroutine
\* goes on to where updateOrders was called from
C17_PassReturnsNormally ==
  [][updateOrdersStep => ~crashed']_vars

\* how often processTrade registered the volume of order i
registered(done, i) == Cardinality({k \in 1..Len(done) : done[k] = i})

\* C18: in a reconciliation pass in which the lookup at the exchange or the
\* update of the storage fails for some pending order, every other pending
\* order whose status changed at the exchange is updated in the storage,
\* processed by processTrade (a filled one has its volume registered once) and
\* published once, and a failed order is still stored as it was, pending, for
\* the next pass to take up
C18_FailureIsolated ==
  [][passStep /\ pass'.ok /\ pass'.failed # {} =>
       /\ \A i \in pass'.failed :
            i \in pending(stored) /\ stored'[i] = stored[i] /\ i \in pending(stored')
       /\ \A i \in pending(stored) \ pass'.failed :
            changed(i) =>
              /\ stored'[i].Status = venue[stored[i].ExchangeID]
              /\ published(i) = 1
              /\ registered(trades', i) =
                   registered(trades, i)
                     + (IF venue[stored[i].ExchangeID] = OrderStatusTypeFilled
                          THEN 1 ELSE 0)]_vars

\* a pass has just failed on one order whose status changed, and has updated,
\* registered and published another that was filled
C18_Witness ==
  /\ \E t \in Loops \cup Stoppers : pc[t] \in {"select", "send"}
  /\ request = noRequest /\ pass.ok
  /\ \E i \in pass.failed :
       i \in pending(stored) /\ venue[stored[i].ExchangeID] # stored[i].Status
  /\ Len(writes) = 1
  /\ writes[1].Status = OrderStatusTypeFilled
  /\ writes[1].ID \notin pass.failed
  /\ stored[writes[1].ID] = writes[1]
  /\ registered(trades, writes[1].ID) = 1
  /\ Len(feed) > 0 /\ feed[Len(feed)] = event(writes[1], FALSE)

(* --------------------------------- Stop --------------------------------- *)
\* C19: every call of Stop() returns, also when two callers call it at the
\* same time: a call that has run its reconciliation pass and waits at
\* "c.finish <- true" has a loop goroutine left to receive from c.finish
\* (the channel is unbuffered, and only the loop receives from it)
C19_StopReturns ==
  \A s \in Stoppers :
    pc[s] = "send" /\ ~crashed => \E g \in Loops : pc[g] \notin {"none", "halted"}

(* ---------------------------- order creation ---------------------------- *)
\* C20: when an order creation of the controller returns an error, from the
\* exchange or from the storage, no event of an order of that request has
\* been published or is left to a goroutine to publish
C20_FailedCreationUnpublished ==
  request.op \in {"limit", "market", "oco"} /\ request.err # Nil =>
    /\ \A e \in spawned : e.ExchangeID \notin request.made
    /\ \A k \in 1..Len(feed) : feed[k].ExchangeID \notin request.made

(* ------------------------------ order feed ------------------------------ *)
\* C21: the events reach the order feed in the order of what they report: the
\* creation event of an order created earlier is published before that of an
\* order created later, and no update event of an order is published before
\* its creation event
C21_FeedInOrder ==
  \A k \in 1..Len(feed) :
    /\ ~feed[k].created =>
         \E j \in 1..(k - 1) : feed[j].created /\ feed[j].ID = feed[k].ID
    /\ \A j \in 1..(k - 1) :
         feed[j].created /\ feed[k].created => feed[j].ID < feed[k].ID

(* ------------------------- the wallet's mutex --------------------------- *)
\* OnCandle, step by step: p.Lock() and the store of the candle
OnCandleLock(candle) ==
  /\ job = noJob
  /\ calls < MaxCalls
  /\ candle.Complete => Len(equityValues) < MaxEquity
  /\ job' = [op |-> "OnCandle", candle |-> candle, i |-> 1]
  /\ lastCandle' = [lastCandle EXCEPT ![candle.Pair] = seen(candle)]
  /\ UNCHANGED <<assets, avgShortPrice, avgLongPrice, volume, orders, counter,
                 assetValues, equityValues, ret, calls, drawdown, reads, asked, trip, toolVars>>
  /\ UNCHANGED controllerVars

\* one iteration of the loop of OnCandle over p.orders
OnCandleOrder ==
  LET w == matchOrder([orders |-> orders, assets |-> assets,
                       avgLong |-> avgLongPrice, avgShort |-> avgShortPrice,
                       volume |-> volume], job.i, job.candle)
  IN
  /\ job.op = "OnCandle"
  /\ job.i <= Len(orders)
  /\ orders' = w.orders
  /\ assets' = w.assets
  /\ avgLongPrice' = w.avgLong
  /\ avgShortPrice' = w.avgShort
  /\ volume' = w.volume
  /\ job' = [job EXCEPT !.i = @ + 1]
  /\ UNCHANGED <<lastCandle, counter, assetValues, equityValues, ret, calls,
                 drawdown, reads, asked, trip, toolVars>>
  /\ UNCHANGED controllerVars

\* the end of OnCandle: the samples of a complete candle, and p.Unlock()
OnCandleUnlock ==
  LET candle == job.candle
  IN
  /\ job.op = "OnCandle"
  /\ job.i > Len(orders)
  /\ IF candle.Complete
       THEN /\ assetValues' =
                 [a \in DOMAIN assetValues |->
                    IF a \in DOMAIN assets
                      THEN Append(assetValues[a],
                                  AssetValue(candle.Time,
                                             FMul(FAdd(assets[a].Free, assets[a].Lock),
                                                  lastCandleOf(lastCandle, PairOf(a)).Close)))
                      ELSE assetValues[a]]
            /\ equityValues' =
                 Append(equityValues,
                        equityValue(assets, avgShortPrice, lastCandle, candle))
       ELSE UNCHANGED <<assetValues, equityValues>>
  /\ ret' = [err |-> Nil, candle |-> candle]
  /\ calls' = calls + 1
  /\ job' = noJob
  /\ UNCHANGED <<assets, avgShortPrice, avgLongPrice, volume, lastCandle, orders,
                 counter, drawdown, reads, asked, trip, toolVars>>
  /\ UNCHANGED controllerVars

\* a read of the wallet: which call held the mutex when it was made, and which
\* of how many orders that call had come to
Read(by) == [by |-> by, during |-> job.op, i |-> job.i, of |-> Len(orders)]

\* Account(): p.assets is read without p.Lock()
Account ==
  /\ reads' = Read("Account")
  /\ UNCHANGED <<assets, avgShortPrice, avgLongPrice, volume, lastCandle, orders,
                 counter, assetValues, equityValues, ret, calls, drawdown, job, asked, trip, toolVars>>
  /\ UNCHANGED controllerVars

\* Order(pair, id): p.orders is read without p.Lock()
OrderLookup(id) ==
  /\ reads' = Read("Order")
  /\ UNCHANGED <<assets, avgShortPrice, avgLongPrice, volume, lastCandle, orders,
                 counter, assetValues, equityValues, ret, calls, drawdown, job, asked, trip, toolVars>>
  /\ UNCHANGED controllerVars

\* Position(pair): p.Lock(), the balances read, p.Unlock()
Position(pair) ==
  /\ job = noJob
  /\ reads' = Read("Position")
  /\ UNCHANGED <<assets, avgShortPrice, avgLongPrice, volume, lastCandle, orders,
                 counter, assetValues, equityValues, ret, calls, drawdown, job, asked, trip, toolVars>>
  /\ UNCHANGED controllerVars

\* the calls on the wallet that take the mutex, in the runs with readers
MaxMutexCalls == 3
MutexFree == job = noJob /\ calls < MaxMutexCalls

NextMutex ==
  \/ \E c \in Candles(Traded) : MutexFree /\ OnCandleLock(c)
  \/ OnCandleOrder
  \/ OnCandleUnlock
  \/ \E side \in Sides, pair \in Traded, size \in Sizes :
       MutexFree /\ Tick /\ CreateOrderMarket(side, pair, R(size))
  \/ \E side \in Sides, pair \in Traded, size \in Sizes, limit \in Prices :
       MutexFree /\ Tick /\ CreateOrderLimit(side, pair, R(size), R(limit))
  \/ \E id \in 1..counter : MutexFree /\ Tick /\ Cancel(id)
  \/ Account
  \/ \E id \in 1..counter : OrderLookup(id)
  \/ \E pair \in Traded : Position(pair)

SpecMutex == Init /\ [][NextMutex]_vars

\* C22: Order, Account and Position read the wallet's orders and balances
\* with the wallet's mutex held, so none of them reads in the middle of an
\* OnCandle, after it has gone through some of the orders and before it has
\* gone through the rest
C22_ReadsUnderLock ==
  reads.during = "" \/ ~(1 < reads.i /\ reads.i <= reads.of)

(* ---------------------- the controller's mutex -------------------------- *)
\* the goroutines between the c.mtx.Lock() of an operation of the controller
\* and the unlock that ends it
inside == {t \in Threads : pc[t] \in {"uoQuery", "uoOrders"} \cup Ops}

\* C23: at most one of the controller's order creations, cancellations and
\* reconciliation passes is inside the critical section at a time, also after
\* a pass whose query of the storage failed
C23_OneInside == Cardinality(inside) <= 1

(* ------------------- reconciliation passes, step by step ---------------- *)
\* updateOrders, its query of the storage: the pending orders are read
updateOrdersQuery(t) ==
  /\ ~crashed
  /\ pc[t] = "uoQuery"
  /\ snapshot' = [snapshot EXCEPT ![t] =
                    SelectSeq(stored, LAMBDA o : o.Status \in PendingStatuses)]
  /\ pc' = [pc EXCEPT ![t] = "uoOrders"]
  /\ UNCHANGED <<ctlStatus, locked, stored, venue, spawned, feed, trades, writes,
                 pass, request, crashed>>
  /\ UNCHANGED walletVars

\* updateOrders, its two loops over the orders read, and the deferred
\* c.mtx.Unlock()
updateOrdersOrders(t, outcome) ==
  LET read == snapshot[t]
      updatedOrders == reconcileAll(read, venue, outcome, 1)
  IN
  /\ ~crashed
  /\ pc[t] = "uoOrders"
  /\ \A i \in 1..Len(read) :
       outcome[i] = "update" => venue[read[i].ExchangeID] # read[i].Status
  /\ stored' = updateAll(stored, updatedOrders)
  /\ writes' = updatedOrders
  /\ trades' = processTrades(trades, updatedOrders, 1)
  /\ feed' = feed \o [k \in 1..Len(updatedOrders) |-> event(updatedOrders[k], FALSE)]
  /\ pass' = [ok |-> TRUE,
              failed |-> {read[i].ID : i \in {j \in 1..Len(read) : outcome[j] # "ok"}}]
  /\ request' = noRequest
  /\ snapshot' = [snapshot EXCEPT ![t] = <<>>]
  /\ Unlock
  /\ pc' = [pc EXCEPT ![t] = IF t \in Loops THEN "select" ELSE "send"]
  /\ UNCHANGED <<ctlStatus, venue, spawned>>
  /\ UNCHANGED walletVars

NextPass ==
  \/ \E g \in Loops : ControllerStart(g)
  \/ \E g \in Loops : LoopTick(g)
  \/ \E g \in Loops, s \in OneStop : LoopFinish(g, s)
  \/ \E s \in OneStop : StopCheck(s)
  \/ \E s \in OneStop : StopSet(s)
  \/ \E t \in Loops \cup OneStop : updateOrdersLock(t)
  \/ \E t \in Loops \cup OneStop : updateOrdersQueryFails(t)
  \/ \E t \in Loops \cup OneStop : updateOrdersQuery(t)
  \/ \E t \in Loops \cup OneStop :
       \E outcome \in [1..Len(snapshot[t]) -> {"ok", "lookup", "update"}] :
         updateOrdersOrders(t, outcome)
  \/ \E t \in Loops \cup OneStop : updateOrdersReturn(t)
  \/ StopOrder
  \/ \E fail \in {"none", "exchange", "storage"} : ControllerCreateOrderLimit(fail)
  \/ CallerLock("cancel")
  \/ \E i \in 1..Len(stored), fail \in {"none", "exchange", "storage"} :
       ControllerCancel(i, fail)
  \/ \E ex \in 1..Len(venue),
        st \in {OrderStatusTypePartiallyFilled, OrderStatusTypeFilled,
                OrderStatusTypeCanceled} : ExchangeUpdate(ex, st)
  \/ \E e \in spawned : Publish(e)

SpecPass == Init /\ [][NextPass]_vars

\* C24: whatever the interleaving of ticks, Stop() and order creations, each
\* filled order is given to processTrade at most once: its volume is
\* registered at most once
C24_ProcessedOnce ==
  \A i \in 1..Len(stored) : registered(trades, i) <= 1

(* ----------------------- before the first candle ------------------------ *)
\* the wallet has stored no candle of the pair yet
noCandle(pair) == lastCandle[pair] = seen(zeroCandle)

\* C25: an order of a pair the wallet has seen no candle of is not filled,
\* and nothing but the initial quote balance is held while no candle of any
\* pair has been seen: a market order asked for before the first candle of
\* its pair is not executed
C25_NoFillBeforeFirstCandle ==
  /\ \A i \in 1..Len(orders) :
       noCandle(orders[i].Pair) => orders[i].Status # OrderStatusTypeFilled
  /\ (\A pair \in Pairs : noCandle(pair)) =>
       \A a \in DOMAIN assets :
         FAdd(assets[a].Free, assets[a].Lock) =
           (IF a = baseCoin THEN R(InitialQuote) ELSE Zero)

(* ------------------------- sizes of the requests ------------------------ *)
\* the runs in which the size asked for is recorded, and may be negative
MaxSizeCalls == 3
AnySizes == (-MaxSize)..MaxSize

\* one more call on the wallet: an order placement with this size
Ask(op, size) ==
  /\ calls < MaxSizeCalls
  /\ calls' = calls + 1
  /\ asked' = [op |-> op, size |-> size]
  /\ UNCHANGED <<drawdown, job, reads, trip, toolVars>>
  /\ UNCHANGED controllerVars

\* the quantity CreateOrderMarketQuote asks createOrderMarket for
quoteSize(pair, quoteQuantity) ==
  AmountToLotSize(StepSize, BaseAssetPrecision,
                  FDiv(quoteQuantity, lastCandle[pair].Close))

NextSizes ==
  \/ \E c \in Candles(Traded) : calls < MaxSizeCalls /\ Tick /\ OnCandle(c)
  \/ \E side \in Sides, pair \in Traded, size \in AnySizes :
       /\ calls < MaxSizeCalls
       /\ CreateOrderMarket(side, pair, R(size))
       /\ Ask("market", R(size))
  \/ \E side \in Sides, pair \in Traded, size \in AnySizes :
       /\ calls < MaxSizeCalls
       /\ CreateOrderMarketQuote(side, pair, R(size))
       /\ Ask("marketQuote", quoteSize(pair, R(size)))
  \/ \E side \in Sides, pair \in Traded, size \in AnySizes, limit \in Prices :
       /\ calls < MaxSizeCalls
       /\ CreateOrderLimit(side, pair, R(size), R(limit))
       /\ Ask("limit", R(size))
  \/ \E pair \in Traded, size \in AnySizes, limit \in Prices :
       /\ calls < MaxSizeCalls
       /\ CreateOrderStop(pair, R(size), R(limit))
       /\ Ask("stop", R(size))
  \/ \E side \in Sides, pair \in Traded, size \in AnySizes, price \in Prices,
        stop \in Prices :
       /\ calls < MaxSizeCalls
       /\ stop < price
       /\ CreateOrderOCO(side, pair, R(size), R(price), R(stop), R(stop))
       /\ Ask("oco", R(size))

SpecSizes == Init /\ [][NextSizes]_vars

\* a step in which an order placement was asked of the wallet
placement == calls' = calls + 1 /\ ret'.candle = zeroCandle

C27_NegativeSizeRejected ==
  [][placement /\ FLt(asked'.size, Zero) =>
       ret'.err = ErrInvalidQuantity /\ assets' = assets]_vars

(* ------------------------------ round trips ----------------------------- *)
\* the runs in which positions are opened from a flat wallet and closed again
MaxTripCalls == 5

\* what Position(pair) returns: free + locked of the asset and of the quote
positionOf(as, pair) ==
  LET asset == SplitAssetQuote(pair)[1]
      quote == SplitAssetQuote(pair)[2]
  IN  [asset |-> FAdd(Balance(as, asset).Free, Balance(as, asset).Lock),
       quote |-> FAdd(Balance(as, quote).Free, Balance(as, quote).Lock)]

\* no position in the pair and no order of the pair waiting
flat(pair) ==
  /\ positionOf(assets, pair).asset = Zero
  /\ \A i \in 1..Len(orders) :
       orders[i].Pair = pair => orders[i].Status # OrderStatusTypeNew

opposite(side) == IF side = SideTypeBuy THEN SideTypeSell ELSE SideTypeBuy

\* an order of the round trip: a market order at the last close, or a limit
\* order at its price
place(kind, side, pair, size, price) ==
  IF kind = OrderTypeMarket
    THEN lastCandle[pair].Close = price /\ CreateOrderMarket(side, pair, size)
    ELSE CreateOrderLimit(side, pair, size, price)

isFilled(os, id) == os[id].Status = OrderStatusTypeFilled

TripCall ==
  /\ calls < MaxTripCalls
  /\ calls' = calls + 1
  /\ UNCHANGED <<drawdown, job, reads, asked, toolVars>>
  /\ UNCHANGED controllerVars

\* the opening order of a round trip, placed on a flat wallet
TripOpen(kind, side, pair, size, price) ==
  /\ trip.phase \in {"none", "closed"}
  /\ flat(pair)
  /\ TripCall
  /\ place(kind, side, pair, size, price)
  /\ trip' = IF ret'.err # Nil THEN noTrip
             ELSE [phase |-> IF isFilled(orders', Len(orders')) THEN "open" ELSE "opening",
                   side |-> side, size |-> size, price |-> price,
                   asset |-> positionOf(assets, pair).asset,
                   quote |-> positionOf(assets, pair).quote,
                   first |-> Len(orders'), second |-> 0]

\* the closing order: the opposite side, the same size, the same price
TripClose(kind) ==
  LET pair == orders[trip.first].Pair IN
  /\ trip.phase = "open"
  /\ TripCall
  /\ place(kind, opposite(trip.side), pair, trip.size, trip.price)
  /\ trip' = IF ret'.err # Nil THEN trip
             ELSE [trip EXCEPT !.phase = IF isFilled(orders', Len(orders'))
                                          THEN "closed" ELSE "closing",
                               !.second = Len(orders')]

\* a candle, which may fill the order of the round trip that is waiting
TripCandle(candle) ==
  /\ TripCall
  /\ OnCandle(candle)
  /\ trip' = IF trip.phase = "opening" /\ isFilled(orders', trip.first)
               THEN [trip EXCEPT !.phase = "open"]
             ELSE IF trip.phase = "closing" /\ isFilled(orders', trip.second)
               THEN [trip EXCEPT !.phase = "closed"]
             ELSE trip

TripKinds == {OrderTypeMarket, OrderTypeLimit}

NextTrip ==
  \/ \E c \in Candles(Traded) : TripCandle(c)
  \/ \E kind \in TripKinds, side \in Sides, pair \in Traded,
        size \in Sizes \ {0}, price \in Prices :
       TripOpen(kind, side, pair, R(size), R(price))
  \/ \E kind \in TripKinds : TripClose(kind)

SpecTrip == Init /\ [][NextTrip]_vars

\* C28: when the closing order of a round trip is filled, free + locked of
\* the asset and of the quote are what they were before the opening order
C28_RoundTrip ==
  trip.phase = "closed" =>
    /\ positionOf(assets, orders[trip.first].Pair).asset = trip.asset
    /\ positionOf(assets, orders[trip.first].Pair).quote = trip.quote

(* --------------------------------- fills -------------------------------- *)
\* the orders a step fills: appended as Filled, or found Filled after the step
fills ==
  {i \in 1..Len(orders') :
     /\ orders'[i].Status = OrderStatusTypeFilled
     /\ i <= Len(orders) => orders[i].Status # OrderStatusTypeFilled}

\* C29: a step that fills one sell order of a quantity no larger than the
\* net long position of its pair leaves avgLongPrice and avgShortPrice of the
\* pair as they were
C29_SellWithinLongKeepsAverages ==
  [][\A i \in fills :
       LET pair == orders'[i].Pair
           qty == positionOf(assets, pair).asset
       IN  /\ fills = {i}
           /\ orders'[i].Side = SideTypeSell
           /\ FGt(qty, Zero)
           /\ FLe(orders'[i].Quantity, qty)
           => /\ avgLongPrice'[pair] = avgLongPrice[pair]
              /\ avgShortPrice'[pair] = avgShortPrice[pair]]_vars

\* the price an order was filled at
fillPrice(order) ==
  IF order.Side = SideTypeSell
     /\ order.Type \in {OrderTypeStopLossLimit, OrderTypeStopLoss}
    THEN order.Stop[1]
    ELSE order.Price

\* C30: a step that fills one order of quantity q changes free + locked of
\* the asset by +q for a buy and by -q for a sell; a sell larger than the
\* long position it meets sets avgShortPrice to the fill price, a buy larger
\* than the short position it meets sets avgLongPrice to the fill price
C30_FillChangesNetByQuantity ==
  [][\A i \in fills :
       LET order == orders'[i]
           q == order.Quantity
           before == positionOf(assets, order.Pair).asset
           after == positionOf(assets', order.Pair).asset
       IN  fills = {i} =>
             /\ order.Side = SideTypeBuy => after = FAdd(before, q)
             /\ order.Side = SideTypeSell => after = FSub(before, q)
             /\ order.Side = SideTypeSell /\ FGt(before, Zero) /\ FGt(q, before)
                  => avgShortPrice'[order.Pair] = fillPrice(order)
             /\ order.Side = SideTypeBuy /\ FLt(before, Zero)
                  /\ FGt(q, FNeg(before))
                  => avgLongPrice'[order.Pair] = fillPrice(order)]_vars

(* ------------------------- the status of an order ---------------------- *)
\* C31: the status of an order changes only while it is New: an order that
\* is Canceled or Filled keeps its status through every later candle and
\* operation
C31_StatusOnlyLeavesNew ==
  [][\A i \in 1..Len(orders) :
       orders[i].Status # OrderStatusTypeNew
         => orders'[i].Status = orders[i].Status]_vars

(* --------------------------------- locks -------------------------------- *)
\* C32: while no order is New, nothing is locked of any asset
C32_LocksOnlyForPending ==
  (\A i \in 1..Len(orders) : orders[i].Status # OrderStatusTypeNew)
    => \A a \in DOMAIN assets : assets[a].Lock = Zero

\* the orders a step has appended
created == {i \in 1..Len(orders') : i > Len(orders)}

\* C33: a step that appends orders that wait for a candle leaves free + locked
\* of the asset and of the quote of their pair as they were
C33_PendingKeepsPosition ==
  [][\A i \in created :
       orders'[i].Status = OrderStatusTypeNew
         => positionOf(assets', orders'[i].Pair) = positionOf(assets, orders'[i].Pair)]_vars

(* -------------------- the profit of a filled order ---------------------- *)
\* the controller over the wallet: market and limit orders, candles, and
\* reconciliation passes, one after the other
MaxProfitCalls == 4

ProfitCall ==
  /\ calls < MaxProfitCalls
  /\ calls' = calls + 1
  /\ UNCHANGED <<drawdown, job, reads, asked, trip, scheduler>>
  /\ UNCHANGED otherTools
  /\ UNCHANGED controllerVars

\* the ExchangeIDs of the orders a step of the wallet fills, in the order it
\* fills them: OnCandle goes through p.orders by index
RECURSIVE filledNow(_, _, _)
filledNow(before, after, i) ==
  IF i > Len(after) THEN <<>>
  ELSE IF /\ after[i].Status = OrderStatusTypeFilled
          /\ i <= Len(before) => before[i].Status # OrderStatusTypeFilled
    THEN <<after[i].ExchangeID>> \o filledNow(before, after, i + 1)
    ELSE filledNow(before, after, i + 1)

\* c.storage.CreateOrder(&order): the row gets the next ID
createRow(rows, order) == Append(rows, [ID |-> Len(rows) + 1] @@ order)

\* what calculateProfit(o) replays: the IDs of the rows of its query, o left out
replayedFor(rows, o) ==
  LET os == filledBefore(rows, o)
  IN  [o |-> o.ID,
       replayed |-> {os[k].ID : k \in {j \in 1..Len(os) : os[j].ID # o.ID}}]

\* processTrade of each of the orders in turn, over the rows as they are
RECURSIVE replaysOf(_, _, _)
replaysOf(rows, os, i) ==
  IF i > Len(os) THEN <<>>
  ELSE IF os[i].Status = OrderStatusTypeFilled
    THEN <<replayedFor(rows, os[i])>> \o replaysOf(rows, os, i + 1)
    ELSE replaysOf(rows, os, i + 1)

\* c.exchange.Order(pair, id) on the wallet, with excOrder.ID = order.ID
exchangeOrder(row) ==
  LET i == CHOOSE j \in 1..Len(orders) : orders[j].ExchangeID = row.ExchangeID
  IN  [ID |-> row.ID] @@ orders[i]

\* updatedOrders of updateOrders over the rows from the i-th on
RECURSIVE updatedRows(_, _)
updatedRows(rows, i) ==
  IF i > Len(rows) THEN <<>>
  ELSE IF rows[i].Status \in PendingStatuses
          /\ exchangeOrder(rows[i]).Status # rows[i].Status
    THEN <<exchangeOrder(rows[i])>> \o updatedRows(rows, i + 1)
    ELSE updatedRows(rows, i + 1)

\* Controller.CreateOrderMarket: the order is stored and its trade processed
ProfitMarket(side, pair, size) ==
  /\ ProfitCall
  /\ CreateOrderMarket(side, pair, size)
  /\ attribution' =
       IF ret'.err # Nil THEN [attribution EXCEPT !.replays = <<>>]
       ELSE LET rows == createRow(attribution.stored, orders'[Len(orders')])
            IN  [stored |-> rows,
                 filled |-> attribution.filled \o filledNow(orders, orders', 1),
                 replays |-> replaysOf(rows, <<rows[Len(rows)]>>, 1)]

\* Controller.CreateOrderLimit: the order is stored
ProfitLimit(side, pair, size, limit) ==
  /\ ProfitCall
  /\ CreateOrderLimit(side, pair, size, limit)
  /\ attribution' =
       IF ret'.err # Nil THEN [attribution EXCEPT !.replays = <<>>]
       ELSE [attribution EXCEPT
               !.stored = createRow(@, orders'[Len(orders')]),
               !.replays = <<>>]

\* a candle reaches the wallet
ProfitCandle(candle) ==
  /\ ProfitCall
  /\ OnCandle(candle)
  /\ attribution' = [attribution EXCEPT
                       !.filled = @ \o filledNow(orders, orders', 1),
                       !.replays = <<>>]

\* updateOrders: the pending rows are compared with the wallet's orders, the
\* changed ones are written, then processTrade is called for each of them
ProfitPass ==
  LET updatedOrders == updatedRows(attribution.stored, 1)
      rows == updateAll(attribution.stored, updatedOrders)
  IN
  /\ calls < MaxProfitCalls
  /\ calls' = calls + 1
  /\ attribution' = [attribution EXCEPT
                       !.stored = rows,
                       !.replays = replaysOf(rows, updatedOrders, 1)]
  /\ UNCHANGED <<assets, avgShortPrice, avgLongPrice, volume, lastCandle,
                 orders, counter, assetValues, equityValues, ret, drawdown,
                 job, reads, asked, trip, scheduler>>
  /\ UNCHANGED otherTools
  /\ UNCHANGED controllerVars

NextProfit ==
  \/ \E c \in Candles(Traded) : ProfitCandle(c)
  \/ \E side \in Sides, pair \in Traded, size \in Sizes \ {0} :
       ProfitMarket(side, pair, R(size))
  \/ \E side \in Sides, pair \in Traded, size \in Sizes \ {0}, limit \in Prices :
       ProfitLimit(side, pair, R(size), R(limit))
  \/ ProfitPass

SpecProfit == Init /\ [][NextProfit]_vars

\* the place of a stored order in the order the wallet filled its orders in
filledAs(id) ==
  CHOOSE k \in 1..Len(attribution.filled) :
    attribution.filled[k] = attribution.stored[id].ExchangeID

\* C34: every order calculateProfit replays for an order o was filled by the
\* wallet before o was
C34_ReplayedFilledBefore ==
  \A n \in 1..Len(attribution.replays) :
    \A id \in attribution.replays[n].replayed :
      filledAs(id) < filledAs(attribution.replays[n].o)

(* ----------------------------- cancellation ----------------------------- *)
\* C35: a Cancel of the controller that succeeds stores the order as
\* PendingCancel; the next reconciliation pass stores it as Canceled and
\* publishes one update event for it; an order stored as Canceled is not
\* written and not published again
C35_CancelThenOnePass ==
  [][/\ pc[Caller] = "cancel" /\ pc'[Caller] # "cancel" /\ request'.err = Nil
          => \A k \in 1..Len(writes') :
               writes'[k].Status = OrderStatusTypePendingCancel
     /\ passStep
          => \A i \in 1..Len(stored) :
               stored[i].Status = OrderStatusTypePendingCancel
                 => stored'[i].Status = OrderStatusTypeCanceled /\ published(i) = 1
     /\ \A i \in 1..Len(stored) :
          stored[i].Status = OrderStatusTypeCanceled
            => stored'[i] = stored[i] /\ published(i) = 0]_vars

(* ------------------------------- Scheduler ------------------------------ *)
MaxConditions == 3
MaxUpdates == 3

\* the state the Scheduler does not touch
schedulerFrame ==
  /\ UNCHANGED <<assets, avgShortPrice, avgLongPrice, volume, lastCandle, orders,
                 counter, assetValues, equityValues, ret, calls, drawdown, job,
                 reads, asked, trip, attribution>>
  /\ UNCHANGED otherTools
  /\ UNCHANGED controllerVars

\* SellWhen / BuyWhen: the condition is appended; id: the condition function
When(side, size) ==
  /\ scheduler.registered < MaxConditions
  /\ scheduler' = [scheduler EXCEPT
                     !.orderConditions =
                        Append(@, [id |-> scheduler.registered + 1,
                                   Size |-> size, Side |-> side]),
                     !.registered = @ + 1]
  /\ schedulerFrame

\* variant: a condition whose order failed is dropped
keep_DropOnError(holds, err) == ~holds

\* the function given to lo.Filter: TRUE keeps the condition; holds: what
\* oc.Condition(df) returns, err: broker.CreateOrderMarket returned an error
keep(holds, err) ==
  IF holds THEN (IF err THEN TRUE ELSE FALSE) ELSE TRUE

\* lo.Filter over the conditions from the i-th on: the conditions kept, and
\* the ids of the conditions a market order was created for
RECURSIVE Filter(_, _, _, _)
Filter(ocs, truth, fails, i) ==
  IF i > Len(ocs) THEN [kept |-> <<>>, made |-> <<>>]
  ELSE LET rest == Filter(ocs, truth, fails, i + 1)
       IN  [kept |-> IF keep(truth[i], fails[i])
                       THEN <<ocs[i]>> \o rest.kept ELSE rest.kept,
            made |-> IF truth[i] /\ ~fails[i]
                       THEN <<ocs[i].id>> \o rest.made ELSE rest.made]

\* Update(df, broker); truth: what each condition returns on df, fails: the
\* conditions whose order the broker refuses
SchedulerUpdate(truth, fails) ==
  LET r == Filter(scheduler.orderConditions, truth, fails, 1)
  IN
  /\ scheduler.updates < MaxUpdates
  /\ scheduler' = [scheduler EXCEPT
                     !.orderConditions = r.kept,
                     !.made = @ \o r.made,
                     !.updates = @ + 1,
                     !.truth = truth,
                     !.fails = fails]
  /\ schedulerFrame

NextScheduler ==
  \/ \E side \in Sides, size \in Sizes \ {0} : When(side, R(size))
  \/ \E truth \in [1..Len(scheduler.orderConditions) -> BOOLEAN] :
       \E fails \in [1..Len(scheduler.orderConditions) -> BOOLEAN] :
         SchedulerUpdate(truth, fails)

SpecScheduler == Init /\ [][NextScheduler]_vars

\* a step of Update, and the places of the conditions it is to keep
updateStep == scheduler'.updates = scheduler.updates + 1
toKeep ==
  {i \in 1..Len(scheduler.orderConditions) :
     ~scheduler'.truth[i] \/ scheduler'.fails[i]}

\* C36: an Update removes exactly the conditions that hold and whose order
\* is created, and creates one order for each of them; the conditions that
\* do not hold or whose order fails are kept, in their order; no condition
\* has an order created twice, and none that had one is still kept
C36_OneShot ==
  [][updateStep =>
       /\ Len(scheduler'.orderConditions) = Cardinality(toKeep)
       /\ \A i \in toKeep :
            scheduler'.orderConditions[Cardinality({k \in toKeep : k <= i})]
              = scheduler.orderConditions[i]
       /\ \A i \in 1..Len(scheduler.orderConditions) :
            i \notin toKeep <=>
              \E k \in (Len(scheduler.made) + 1)..Len(scheduler'.made) :
                scheduler'.made[k] = scheduler.orderConditions[i].id
       /\ \A k, l \in 1..Len(scheduler'.made) :
            scheduler'.made[k] = scheduler'.made[l] => k = l
       /\ \A k \in 1..Len(scheduler'.made) :
            \A i \in 1..Len(scheduler'.orderConditions) :
              scheduler'.orderConditions[i].id # scheduler'.made[k]]_vars

\* an Update has kept a condition whose order failed, in front of one that
\* does not hold, and removed the one between them, whose order was created
C36_Witness ==
  /\ scheduler.updates > 0
  /\ Len(scheduler.truth) = 3
  /\ scheduler.truth[1] /\ scheduler.fails[1]
  /\ scheduler.truth[2] /\ ~scheduler.fails[2]
  /\ ~scheduler.truth[3]
  /\ Len(scheduler.orderConditions) = 2
  /\ Len(scheduler.made) = 1

(* ------------------------------ TrailingStop ---------------------------- *)
MaxLevel == 3
MaxTrailingCalls == 4
Levels == {R(x) : x \in 0..MaxLevel}

\* the state the TrailingStop does not touch
trailingFrame ==
  /\ UNCHANGED <<assets, avgShortPrice, avgLongPrice, volume, lastCandle, orders,
                 counter, assetValues, equityValues, ret, calls, drawdown, job,
                 reads, asked, trip, attribution, scheduler, strategy,
                 subscription>>
  /\ UNCHANGED controllerVars

\* variant: the stop follows the price down as well
Update_Follow(t, current) ==
  IF ~t.active THEN [t |-> t, result |-> FALSE]
  ELSE [t |-> [t EXCEPT !.stop = FAdd(t.stop, FSub(current, t.current)),
                        !.current = current],
        result |-> FGt(current, t.current) = FALSE /\ FLe(current, t.stop)]

\* TrailingStop.Update(current): the TrailingStop after it, and what it returns
Update(t, current) ==
  IF ~t.active THEN [t |-> t, result |-> FALSE]
  ELSE IF FGt(current, t.current)
    THEN [t |-> [t EXCEPT !.stop = FAdd(t.stop, FSub(current, t.current)),
                          !.current = current],
          result |-> FALSE]
  ELSE [t |-> [t EXCEPT !.current = current],
        result |-> FLe(current, t.stop)]

TrailingCall(op, arg, t, result) ==
  /\ trailing.calls < MaxTrailingCalls
  /\ trailing' = [t |-> t, op |-> op, arg |-> arg, result |-> result,
                  calls |-> trailing.calls + 1]
  /\ trailingFrame

\* Start(current, stop)
TrailingStart(current, stop) ==
  TrailingCall("Start", current,
               [current |-> current, stop |-> stop, active |-> TRUE], FALSE)

\* Stop()
TrailingStop ==
  TrailingCall("Stop", Zero, [trailing.t EXCEPT !.active = FALSE], FALSE)

TrailingUpdate(current) ==
  TrailingCall("Update", current, Update(trailing.t, current).t,
               Update(trailing.t, current).result)

NextTrailing ==
  \/ \E current \in Levels, stop \in Levels : TrailingStart(current, stop)
  \/ TrailingStop
  \/ \E current \in Levels : TrailingUpdate(current)

SpecTrailing == Init /\ [][NextTrailing]_vars

\* C37: Update(current) on an inactive TrailingStop returns false and changes
\* nothing; on an active one with current above the recorded price it raises
\* the stop by current - previous and returns false; otherwise it leaves the
\* stop as it is and returns true exactly when current <= stop; no call but
\* Start lowers the stop
C37_TrailingUpdate ==
  [][/\ (trailing'.calls # trailing.calls /\ trailing'.op = "Update") =>
          LET t == trailing.t
              current == trailing'.arg
          IN  IF ~t.active
                THEN trailing'.t = t /\ ~trailing'.result
              ELSE IF FGt(current, t.current)
                THEN /\ FSub(trailing'.t.stop, t.stop) = FSub(current, t.current)
                     /\ ~trailing'.result
                     /\ trailing'.t.active
              ELSE /\ trailing'.t.stop = t.stop
                   /\ trailing'.t.active
                   /\ trailing'.result <=> FLe(current, t.stop)
     /\ (trailing'.calls # trailing.calls /\ trailing'.op # "Start") =>
          FGe(trailing'.t.stop, trailing.t.stop)]_vars

\* an Update has raised the stop, and the next one, at a lower price, has met it
C37_Witness ==
  /\ trailing.op = "Update"
  /\ trailing.t.active
  /\ trailing.result
  /\ FGt(trailing.t.stop, R(MaxLevel))

(* --------------------------- strategy Controller ------------------------ *)
MaxWarmup == 2
MaxCandleTime == 3
MaxClose == 2
MaxStrategyCalls == 4

\* the candles of the feed: Time, Close (as the other columns) and Complete
StrategyCandles ==
  [Time : 1..MaxCandleTime, Close : 1..MaxClose, Complete : BOOLEAN]

\* the state the strategy Controller does not touch
strategyFrame ==
  /\ UNCHANGED <<assets, avgShortPrice, avgLongPrice, volume, lastCandle, orders,
                 counter, assetValues, equityValues, ret, calls, drawdown, job,
                 reads, asked, trip, attribution, scheduler, trailing,
                 subscription>>
  /\ UNCHANGED controllerVars

\* NewStrategyController(pair, strategy, broker), for a strategy with the
\* given WarmupPeriod() that is (hf) or is not a HighFrequencyStrategy
NewStrategyController(warmup, hf) ==
  /\ ~strategy.made
  /\ strategy' = [noStrategy EXCEPT !.made = TRUE, !.warmup = warmup, !.hf = hf]
  /\ strategyFrame

\* the columns of the dataframe after updateDataFrame(candle)
updateDataFrame(df, candle) ==
  IF Len(df.Time) > 0 /\ candle.Time = df.Time[Len(df.Time)]
    THEN [df EXCEPT !.Close[Len(df.Time)] = candle.Close,
                    !.Time[Len(df.Time)] = candle.Time]
    ELSE [df EXCEPT !.Close = Append(@, candle.Close),
                    !.Time = Append(@, candle.Time)]

StrategyCall(op, candle, after) ==
  /\ strategy.made
  /\ strategy.calls < MaxStrategyCalls
  /\ strategy' = [after EXCEPT !.op = op, !.candle = candle,
                               !.calls = strategy.calls + 1]
  /\ strategyFrame

\* Controller.Start()
StrategyStart ==
  StrategyCall("Start", <<>>,
               [strategy EXCEPT !.started = TRUE, !.indicators = FALSE,
                                !.callback = ""])

\* Controller.OnPartialCandle(candle)
StrategyOnPartialCandle(candle) ==
  LET idle == [strategy EXCEPT !.indicators = FALSE, !.callback = ""]
  IN  StrategyCall("OnPartialCandle", candle,
        IF ~candle.Complete /\ Len(strategy.Close) >= strategy.warmup
             /\ strategy.hf
          THEN [updateDataFrame(idle, candle) EXCEPT
                  !.indicators = TRUE, !.callback = "OnPartialCandle"]
          ELSE idle)

\* Controller.OnCandle(candle)
StrategyOnCandle(candle) ==
  LET idle == [strategy EXCEPT !.indicators = FALSE, !.callback = ""]
      df == updateDataFrame(idle, candle)
  IN  StrategyCall("OnCandle", candle,
        IF Len(strategy.Time) > 0
             /\ candle.Time < strategy.Time[Len(strategy.Time)]
          THEN idle
        ELSE IF Len(df.Close) >= strategy.warmup
          THEN [df EXCEPT !.indicators = TRUE,
                          !.callback = IF strategy.started THEN "OnCandle" ELSE ""]
        ELSE df)

NextStrategy ==
  \/ \E warmup \in 0..MaxWarmup, hf \in BOOLEAN : NewStrategyController(warmup, hf)
  \/ StrategyStart
  \/ \E candle \in StrategyCandles : StrategyOnPartialCandle(candle)
  \/ \E candle \in StrategyCandles : StrategyOnCandle(candle)

SpecStrategy == Init /\ [][NextStrategy]_vars

\* a call of OnCandle or OnPartialCandle
strategyCandle ==
  /\ strategy'.calls # strategy.calls
  /\ strategy'.op \in {"OnCandle", "OnPartialCandle"}

\* C38: the timestamps of the dataframe are non-decreasing after every call of
\* OnCandle and OnPartialCandle; a candle older than the last row changes
\* nothing and reaches no method of the strategy, and a candle with the time
\* of the last row does not add a row
C38_TimestampsOrdered ==
  [][strategyCandle =>
       /\ \A i \in 1..Len(strategy'.Time) - 1 :
            strategy'.Time[i] <= strategy'.Time[i + 1]
       /\ (Len(strategy.Time) > 0
             /\ strategy'.candle.Time < strategy.Time[Len(strategy.Time)])
            => /\ strategy'.Time = strategy.Time
               /\ strategy'.Close = strategy.Close
               /\ ~strategy'.indicators
               /\ strategy'.callback = ""
       /\ (Len(strategy.Time) > 0
             /\ strategy'.candle.Time = strategy.Time[Len(strategy.Time)])
            => Len(strategy'.Time) = Len(strategy.Time)]_vars

\* C39: OnCandle and OnPartialCandle of the strategy are invoked only after
\* Start() and only with at least WarmupPeriod rows in the dataframe
C39_CallbacksAfterStart ==
  [][(strategyCandle /\ strategy'.callback # "") =>
       /\ strategy.started
       /\ Len(strategy'.Close) >= strategy.warmup]_vars

(* --------------------------- CandlesSubscription ------------------------ *)
MaxServes == 2
MaxEvents == 2

\* the state CandlesSubscription does not touch
subscriptionFrame ==
  /\ UNCHANGED <<assets, avgShortPrice, avgLongPrice, volume, lastCandle, orders,
                 counter, assetValues, equityValues, ret, calls, drawdown, job,
                 reads, asked, trip, attribution, scheduler, trailing, strategy>>
  /\ UNCHANGED controllerVars

\* a send on a closed channel panics and ends the program
running == subscription.sentClosed = {}

SubscriptionStep(after) ==
  /\ running
  /\ subscription' = after
  /\ subscriptionFrame

\* ch <- value on an unbuffered channel whose receiver is ready: a panic when
\* ch is closed, the value handed over otherwise
send(sub, ch) ==
  IF sub.closes[ch] > 0
    THEN [sub EXCEPT !.sentClosed = @ \cup {ch}]
    ELSE [sub EXCEPT !.received[ch] = @ + 1]

\* close(ch)
close(sub, ch) == [sub EXCEPT !.closes[ch] = @ + 1]

\* ctx is cancelled by its owner
ContextCancel ==
  /\ ~subscription.cancelled
  /\ SubscriptionStep([subscription EXCEPT !.cancelled = TRUE])

\* binance.WsKlineServe(pair, period, handler, errHandler) returns: with an
\* error, or with the done channel of a connection that now calls the handlers
WsKlineServe(err) ==
  /\ subscription.pc = "serve"
  /\ subscription.serves < MaxServes
  /\ SubscriptionStep(
       IF err
         THEN [subscription EXCEPT !.pc = "failed", !.serves = @ + 1]
         ELSE [subscription EXCEPT !.pc = "select", !.serves = @ + 1,
                                   !.conn = "open"])

\* if err != nil { cerr <- err
FatalSend ==
  /\ subscription.pc = "failed"
  /\ SubscriptionStep([send(subscription, "cerr") EXCEPT !.pc = "closeErr"])

\* select, case <-ctx.Done()
SelectCancelled ==
  /\ subscription.pc = "select"
  /\ subscription.cancelled
  /\ SubscriptionStep([subscription EXCEPT !.pc = "closeErr"])

\* select, case <-done: time.Sleep(ba.Duration()), and the loop goes round
SelectDone ==
  /\ subscription.pc = "select"
  /\ subscription.conn = "done"
  /\ SubscriptionStep([subscription EXCEPT !.pc = "serve", !.conn = "none"])

\* close(cerr)
CloseErr ==
  /\ subscription.pc = "closeErr"
  /\ SubscriptionStep([close(subscription, "cerr") EXCEPT !.pc = "closeCandle"])

\* close(ccandle); return
CloseCandle ==
  /\ subscription.pc = "closeCandle"
  /\ SubscriptionStep([close(subscription, "ccandle") EXCEPT !.pc = "returned"])

\* the connection has an event: the event handler runs up to ccandle <- candle
EventHandler ==
  /\ subscription.conn = "open"
  /\ subscription.handler = "idle"
  /\ subscription.received.ccandle < MaxEvents
  /\ SubscriptionStep([subscription EXCEPT !.handler = "ccandle"])

\* the connection fails: the error handler runs up to cerr <- err
ErrorHandler ==
  /\ subscription.conn = "open"
  /\ subscription.handler = "idle"
  /\ SubscriptionStep([subscription EXCEPT !.handler = "cerr"])

\* the send of the running handler; the connection ends after its error handler
HandlerSend ==
  /\ subscription.handler # "idle"
  /\ SubscriptionStep(
       [send(subscription, subscription.handler) EXCEPT
          !.handler = "idle",
          !.conn = IF subscription.handler = "cerr" THEN "done" ELSE @])

NextSubscription ==
  \/ ContextCancel
  \/ \E err \in BOOLEAN : WsKlineServe(err)
  \/ FatalSend
  \/ SelectCancelled
  \/ SelectDone
  \/ CloseErr
  \/ CloseCandle
  \/ EventHandler
  \/ ErrorHandler
  \/ HandlerSend

SpecSubscription == Init /\ [][NextSubscription]_vars

\* C40: neither channel is closed twice, both are closed once the goroutine
\* has returned, it leaves its loop only on a cancelled context or a failed
\* WsKlineServe, and no handler sends on a closed channel
C40_ClosedOnceNoSendAfter ==
  /\ \A ch \in {"ccandle", "cerr"} : subscription.closes[ch] <= 1
  /\ subscription.pc = "returned" =>
       \A ch \in {"ccandle", "cerr"} : subscription.closes[ch] = 1
  /\ subscription.sentClosed = {}

====
